---- MODULE Spec2Model ----
(***************************************************************************)
(* Model of the mind-map editor's data-model core (src/unnamed/part_000):  *)
(* the pure helpers over node lists and category trees, and the MindMapApp *)
(* handlers that drive them.                                               *)
(*                                                                         *)
(* Strings are sequences of one-character strings, so trimming, suffix     *)
(* stripping and number formatting are computed as the code computes them. *)
(* uid() is a fresh-number supply; Date.now() and Math.random() are inputs.*)
(***************************************************************************)
EXTENDS Integers, Sequences, FiniteSets, TLC

VARIABLES
    mounted,        \* the mount effect (part_000:485-495) has run
    categories,     \* useState<Category[]>           (part_000:459)
    currentCatId,   \* useState<string | null>        (part_000:461)
    nodes,          \* useState<NodeT[]>              (part_000:451)
    selectedId,     \* useState<string | null>        (part_000:452)
    mapEditing,     \* useState<{catId, mapId} | null> (part_000:480)
    mapEditValue,   \* useState<string>               (part_000:481)
    catEditingId,   \* useState<string | null>        (part_000:475)
    catEditValue,   \* useState<string>               (part_000:476)
    editingId,      \* useState<string | null>        (part_000:470)
    editValue,      \* useState<string>               (part_000:471)
    altFlipRef,     \* useRef(1).current              (part_000:467)
    dragRef,        \* useRef(...).current            (part_000:621)
    localStorage,   \* the browser's localStorage: the text under each key
    downloaded,     \* the text of the last file written by download()
    flushed,        \* the categories value the persist effect last ran for
    nextUid,        \* number of uid() values handed out so far
    last,           \* history: the last handler that changed the maps, and
                    \* whether the name it was given was already taken
    call,           \* helper under test and its arguments (helper specifications)
    ret             \* its result as <<result>>, <<>> while pending

canvasVars == <<editingId, editValue, altFlipRef, dragRef>>

catEditVars == <<catEditingId, catEditValue>>

ioVars == <<localStorage, downloaded, flushed>>

vars == <<mounted, categories, currentCatId, nodes, selectedId, mapEditing,
          mapEditValue, nextUid, last, call, ret, canvasVars, ioVars, catEditVars>>

appVars == <<mounted, categories, currentCatId, nodes, selectedId, mapEditing,
             mapEditValue, nextUid, last, canvasVars, ioVars, catEditVars>>

\* JavaScript null for an id (ids are numbers >= 0 in the model); a nullable
\* object is <<>> when null and <<object>> otherwise
NULL == -1

-----------------------------------------------------------------------------
(* Bounds *)

MaxMaps == 3        \* maps per category in the helper inputs
MaxUids == 3        \* uid() calls in one run of the application
MaxNodes == 4       \* nodes in a layout input
MaxCanvas == 2      \* nodes on the canvas in the application
MaxCanvasUids == 2  \* uid() calls in one run of the canvas specification
MaxCanvasNodes == 2 \* nodes on the canvas in the canvas specification
MaxFileNodes == 3   \* nodes in an imported file
MaxSidebarUids == 1 \* uid() calls in one run of the sidebar specification

\* the caps that apply to the specification that is running
UidCap == CASE call.fn = "canvas"  -> MaxCanvasUids
            [] call.fn = "sidebar" -> MaxSidebarUids
            [] OTHER               -> MaxUids
NodeCap == IF call.fn = "canvas" THEN MaxCanvasNodes ELSE MaxCanvas

-----------------------------------------------------------------------------
(* JavaScript string primitives over character sequences *)

Range(f) == { f[k] : k \in DOMAIN f }

IsSpace(ch) == ch \in {" ", "\t"}

Digits == <<"0", "1", "2", "3", "4", "5", "6", "7", "8", "9">>

IsDigit(ch) == \E d \in 1..10 : Digits[d] = ch

\* String.prototype.trim
RECURSIVE trimStart(_)
trimStart(s) ==
    IF s # <<>> /\ IsSpace(Head(s)) THEN trimStart(Tail(s)) ELSE s

RECURSIVE trimEnd(_)
trimEnd(s) ==
    IF s # <<>> /\ IsSpace(s[Len(s)]) THEN trimEnd(SubSeq(s, 1, Len(s) - 1)) ELSE s

trim(s) == trimEnd(trimStart(s))

\* String.prototype.lastIndexOf, 0-based, -1 when absent
lastIndexOf(s, pat) ==
    LET hits == { i \in 0..(Len(s) - Len(pat)) : SubSeq(s, i + 1, i + Len(pat)) = pat }
    IN  IF hits = {} THEN -1 ELSE CHOOSE i \in hits : \A j \in hits : j <= i

endsWith(s, pat) ==
    Len(s) >= Len(pat) /\ SubSeq(s, Len(s) - Len(pat) + 1, Len(s)) = pat

\* String.prototype.slice(from, to) with 0-based from and exclusive to;
\* a negative index counts from the end
sliceIndex(s, i) ==
    IF i < 0 THEN (IF Len(s) + i < 0 THEN 0 ELSE Len(s) + i)
    ELSE (IF i > Len(s) THEN Len(s) ELSE i)

slice(s, from, to) == SubSeq(s, sliceIndex(s, from) + 1, sliceIndex(s, to))

\* `${i}` for a non-negative integer: its decimal digits
RECURSIVE numberToString(_)
numberToString(i) ==
    IF i < 10 THEN <<Digits[i + 1]>>
    ELSE numberToString(i \div 10) \o <<Digits[(i % 10) + 1]>>

Untitled == <<"U", "n", "t", "i", "t", "l", "e", "d">>
UnnamedMap == <<"(", "u", "n", "n", "a", "m", "e", "d", " ", "m", "a", "p", ")">>

-----------------------------------------------------------------------------
(* uniqueMapName, part_000:246-259 *)

someNamed(maps, name) == \E k \in 1..Len(maps) : maps[k].name = name

\* `${root} (${i})`
suffixed(root, i) == root \o <<" ", "(">> \o numberToString(i) \o <<")">>

\* variant of nameRoot that keeps a numbered suffix
nameRoot_literal(base) == trim(IF base = <<>> THEN Untitled ELSE base)

\* lines 248-254: default, trim, strip one trailing " (digits)"
nameRoot(base) ==
    LET root0 == trim(IF base = <<>> THEN Untitled ELSE base)
        sufStart == lastIndexOf(root0, <<" ", "(">>)
    IN  IF sufStart # -1 /\ endsWith(root0, <<")">>)
        THEN LET num == slice(root0, sufStart + 2, -1)
                 digits == Len(num) > 0 /\ \A k \in 1..Len(num) : IsDigit(num[k])
             IN  IF digits THEN slice(root0, 0, sufStart) ELSE root0
        ELSE root0

\* lines 256-257: let i = 2; while (taken) i++
RECURSIVE firstFreeSuffix(_, _, _)
firstFreeSuffix(maps, root, i) ==
    IF someNamed(maps, suffixed(root, i)) THEN firstFreeSuffix(maps, root, i + 1) ELSE i

\* variant of uniqueMapName without the while loop
uniqueMapName_stuck(maps, base) ==
    LET root == nameRoot(base)
    IN  IF ~someNamed(maps, root) THEN root ELSE suffixed(root, 2)

uniqueMapName(maps, base) ==
    LET root == nameRoot(base)
    IN  IF ~someNamed(maps, root) THEN root
        ELSE suffixed(root, firstFreeSuffix(maps, root, 2))

-----------------------------------------------------------------------------
(* Node helpers, part_000:111-160.  A NodeT is                             *)
(* [id, label, x, y, parentId, color, side].  Coordinates are JavaScript   *)
(* numbers; the model stores them in sixteenths so that every halving the  *)
(* code performs is exact (Half has no value otherwise).                   *)

H == 120
V == 90

FromInt(n) == 16 * n

Half(v) == CASE v % 2 = 0 -> v \div 2

\* Math.min(...q) of a non-empty list
MathMin(q) == CHOOSE v \in Range(q) : \A w \in Range(q) : v <= w

\* variant of MathMax that returns the smallest element
MathMax_smallest(q) == CHOOSE v \in Range(q) : \A w \in Range(q) : v <= w

\* Math.max(...q) of a non-empty list
MathMax(q) == CHOOSE v \in Range(q) : \A w \in Range(q) : v >= w

nodeIds(ns) == { ns[k].id : k \in 1..Len(ns) }

\* lines 114-118: the lists of byParent after the first loop, as a function on
\* the keys that were set
RECURSIVE groupByParent(_, _)
groupByParent(ns, byParent) ==
    IF ns = <<>> THEN byParent
    ELSE LET n == Head(ns)
             key == n.parentId
             had == IF key \in DOMAIN byParent THEN byParent[key] ELSE <<>>
         IN  groupByParent(Tail(ns),
                 [k \in DOMAIN byParent \cup {key} |->
                     IF k = key THEN Append(had, n) ELSE byParent[k]])

\* byParent.get(key) || []
childrenOf(byParent, key) ==
    IF key \in DOMAIN byParent THEN byParent[key] ELSE <<>>

\* variant of addMissingRoots without the roots.includes test
RECURSIVE addMissingRoots_dup(_, _, _)
addMissingRoots_dup(ns, ids, roots) ==
    IF ns = <<>> THEN roots
    ELSE LET n == Head(ns)
         IN  addMissingRoots_dup(Tail(ns), ids,
                 IF n.parentId = NULL \/ n.parentId \notin ids
                 THEN Append(roots, n) ELSE roots)

\* lines 120-124
RECURSIVE addMissingRoots(_, _, _)
addMissingRoots(ns, ids, roots) ==
    IF ns = <<>> THEN roots
    ELSE LET n == Head(ns)
         IN  addMissingRoots(Tail(ns), ids,
                 IF (n.parentId = NULL \/ n.parentId \notin ids) /\ n \notin Range(roots)
                 THEN Append(roots, n) ELSE roots)

\* variant of buildChildrenMap whose roots are in input order
buildChildrenMap_inputOrder(ns) ==
    [byParent |-> groupByParent(ns, <<>>),
     roots |-> SelectSeq(ns, LAMBDA n : n.parentId = NULL \/ n.parentId \notin nodeIds(ns))]

buildChildrenMap(ns) ==
    LET byParent == groupByParent(ns, <<>>)
        ids == nodeIds(ns)
        roots0 == SelectSeq(childrenOf(byParent, NULL), LAMBDA n : n.parentId = NULL)
    IN  [byParent |-> byParent, roots |-> addMissingRoots(ns, ids, roots0)]

\* lines 133-150.  The state threaded through place is cursorX and the
\* positions assigned so far (the mutated n.x, n.y), by node id.
RECURSIVE place(_, _, _, _)
RECURSIVE placeAll(_, _, _, _)

\* ch.map((c) => place(c, depth + 1)): the state after, and the positions returned
placeAll(byParent, ch, depth, st) ==
    IF ch = <<>> THEN [st |-> st, ps |-> <<>>]
    ELSE LET first == place(byParent, Head(ch), depth, st)
             rest == placeAll(byParent, Tail(ch), depth, first.st)
         IN  [st |-> rest.st, ps |-> <<first.p>> \o rest.ps]

place(byParent, n, depth, st) ==
    LET ch == childrenOf(byParent, n.id)
    IN  IF Len(ch) = 0
        THEN LET p == [x |-> st.cursorX * FromInt(H), y |-> depth * FromInt(V)]
             IN  [st |-> [cursorX |-> st.cursorX + 1,
                          pos |-> [i \in DOMAIN st.pos \cup {n.id} |->
                                      IF i = n.id THEN p ELSE st.pos[i]]],
                  p |-> p]
        ELSE LET sub == placeAll(byParent, ch, depth + 1, st)
                 minX == MathMin([k \in 1..Len(sub.ps) |-> sub.ps[k].x])
                 maxX == MathMax([k \in 1..Len(sub.ps) |-> sub.ps[k].x])
                 p == [x |-> Half(minX + maxX), y |-> depth * FromInt(V)]
             IN  [st |-> [cursorX |-> sub.st.cursorX,
                          pos |-> [i \in DOMAIN sub.st.pos \cup {n.id} |->
                                      IF i = n.id THEN p ELSE sub.st.pos[i]]],
                  p |-> p]

\* variant of placeRoots that starts every root at slot 0
RECURSIVE placeRoots_perRoot(_, _, _)
placeRoots_perRoot(byParent, roots, st) ==
    IF roots = <<>> THEN st
    ELSE placeRoots_perRoot(byParent, Tail(roots),
             place(byParent, Head(roots), 0, [st EXCEPT !.cursorX = 0]).st)

\* roots.forEach((r) => place(r, 0)), line 152
RECURSIVE placeRoots(_, _, _)
placeRoots(byParent, roots, st) ==
    IF roots = <<>> THEN st
    ELSE placeRoots(byParent, Tail(roots), place(byParent, Head(roots), 0, st).st)

\* the nodes with the positions assigned by place written into them
placed(ns) ==
    LET m == buildChildrenMap(ns)
        st == placeRoots(m.byParent, m.roots, [cursorX |-> 0, pos |-> <<>>])
    IN  [k \in 1..Len(ns) |->
            IF ns[k].id \in DOMAIN st.pos
            THEN [ns[k] EXCEPT !.x = st.pos[ns[k].id].x, !.y = st.pos[ns[k].id].y]
            ELSE ns[k]]

\* variant of centred that subtracts the minimum instead of the midpoint
centred_minOnly(ns, box) ==
    LET midX == MathMin([k \in 1..Len(box) |-> box[k].x])
        midY == MathMin([k \in 1..Len(box) |-> box[k].y])
    IN  [k \in 1..Len(ns) |-> [ns[k] EXCEPT !.x = @ - midX, !.y = @ - midY]]

\* lines 154-158: translate by the midpoint of the bounding box of `box`
centred(ns, box) ==
    LET xs == [k \in 1..Len(box) |-> box[k].x]
        ys == [k \in 1..Len(box) |-> box[k].y]
        midX == Half(MathMin(xs) + MathMax(xs))
        midY == Half(MathMin(ys) + MathMax(ys))
    IN  [k \in 1..Len(ns) |-> [ns[k] EXCEPT !.x = @ - midX, !.y = @ - midY]]

\* variant of autoLayout that centres on the bounding box of its input
autoLayout_inputBox(ns) ==
    IF ns = <<>> THEN ns ELSE centred(placed(ns), ns)

\* for an empty list the loop of line 158 has nothing to translate
autoLayout(ns) ==
    IF ns = <<>> THEN ns ELSE centred(placed(ns), placed(ns))

-----------------------------------------------------------------------------
(* Category tree helpers, part_000:203-268.  A Category is                 *)
(* [id, name, maps, children]; a MindMapDoc is [id, name, nodes, updatedAt].*)
(* The updater closures passed to updateCategory are records interpreted by *)
(* applyUpdater.                                                            *)

\* Array.prototype.findIndex((m) => m.name === name): 0-based, -1 when absent
findIndexByName(maps, name) ==
    LET hits == { k \in 1..Len(maps) : maps[k].name = name }
    IN  IF hits = {} THEN -1 ELSE (CHOOSE k \in hits : \A j \in hits : k <= j) - 1

\* Array.prototype.filter
RECURSIVE filterSeq(_, _)
filterSeq(q, keep) ==
    IF q = <<>> THEN <<>>
    ELSE (IF Head(q) \in keep THEN <<Head(q)>> ELSE <<>>) \o filterSeq(Tail(q), keep)

\* variant of findCategoryById that looks through a whole level before it
\* descends
RECURSIVE findCategoryById_levels(_, _)
findCategoryById_levels(list, id) ==
    IF list = <<>> THEN <<>>
    ELSE LET here == SelectSeq(list, LAMBDA c : c.id = id)
         IN  IF here # <<>> THEN <<Head(here)>>
             ELSE LET deeper == findCategoryById_levels(Head(list).children, id)
                  IN  IF deeper # <<>> THEN deeper
                      ELSE findCategoryById_levels(Tail(list), id)

\* variant of findCategoryById that falls back to the first category
findCategoryById_first(list, id) ==
    IF list = <<>> THEN <<>> ELSE <<Head(list)>>

RECURSIVE findCategoryById(_, _)
findCategoryById(list, id) ==
    IF list = <<>> THEN <<>>
    ELSE LET c == Head(list)
         IN  IF c.id = id THEN <<c>>
             ELSE LET deeper == findCategoryById(c.children, id)
                  IN  IF deeper # <<>> THEN deeper ELSE findCategoryById(Tail(list), id)

\* variant of deleteMapUpdater that removes the first match only
deleteMapUpdater_first(c, mapId) ==
    LET hits == { k \in 1..Len(c.maps) : c.maps[k].id = mapId }
        first == CHOOSE k \in hits : \A j \in hits : k <= j
    IN  IF hits = {} THEN c
        ELSE [c EXCEPT !.maps = SubSeq(c.maps, 1, first - 1)
                                  \o SubSeq(c.maps, first + 1, Len(c.maps))]

\* (c) => ({ ...c, maps: c.maps.filter((m) => m.id !== mapId) })
deleteMapUpdater(c, mapId) ==
    [c EXCEPT !.maps = filterSeq(c.maps, { m \in Range(c.maps) : m.id # mapId })]

\* variant of addChildUpdater that puts the child first
addChildUpdater_first(c, child) ==
    [c EXCEPT !.children = <<child>> \o c.children]

\* (c) => ({ ...c, children: [...(c.children || []), child] })
addChildUpdater(c, child) ==
    [c EXCEPT !.children = Append(c.children, child)]

\* (c) => ({ ...c, name })
renameUpdater(c, name) ==
    [c EXCEPT !.name = name]

\* variant of renameMapUpdater that counts the renamed map among its siblings
renameMapUpdater_self(c, mapId, newName, now) ==
    LET base == IF trim(newName) = <<>> THEN UnnamedMap ELSE trim(newName)
        name == uniqueMapName(c.maps, base)
    IN  [c EXCEPT !.maps = [k \in 1..Len(c.maps) |->
            IF c.maps[k].id = mapId
            THEN [c.maps[k] EXCEPT !.name = name, !.updatedAt = now]
            ELSE c.maps[k]]]

\* the updater of renameMapInTree, lines 262-267
renameMapUpdater(c, mapId, newName, now) ==
    LET base == IF trim(newName) = <<>> THEN UnnamedMap ELSE trim(newName)
        name == uniqueMapName(
                    filterSeq(c.maps, { m \in Range(c.maps) : m.id # mapId }), base)
    IN  [c EXCEPT !.maps = [k \in 1..Len(c.maps) |->
            IF c.maps[k].id = mapId
            THEN [c.maps[k] EXCEPT !.name = name, !.updatedAt = now]
            ELSE c.maps[k]]]

applyUpdater(u, c) ==
    CASE u.kind = "deleteMap" -> deleteMapUpdater(c, u.mapId)
      [] u.kind = "addChild"  -> addChildUpdater(c, u.child)
      [] u.kind = "rename"    -> renameUpdater(c, u.name)
      [] u.kind = "renameMap" -> renameMapUpdater(c, u.mapId, u.newName, u.now)

\* variant of updateCategory that keeps the matching categories of the list only
updateCategory_prune(list, id, u) ==
    LET hits == SelectSeq(list, LAMBDA c : c.id = id)
    IN  [k \in 1..Len(hits) |-> applyUpdater(u, hits[k])]

RECURSIVE updateCategory(_, _, _)
updateCategory(list, id, u) ==
    [k \in 1..Len(list) |->
        IF list[k].id = id THEN applyUpdater(u, list[k])
        ELSE [list[k] EXCEPT !.children = updateCategory(list[k].children, id, u)]]

\* variant of upsertMaps that never replaces
upsertMaps_prepend(maps, doc) == <<doc>> \o maps

\* lines 221-225: the matching category's new map list
upsertMaps(maps, doc) ==
    LET i == findIndexByName(maps, doc.name)
    IN  IF i >= 0 THEN [maps EXCEPT ![i + 1] = doc] ELSE <<doc>> \o maps

RECURSIVE upsertMapInCategories(_, _, _)
upsertMapInCategories(cats, catId, doc) ==
    [k \in 1..Len(cats) |->
        IF cats[k].id = catId THEN [cats[k] EXCEPT !.maps = upsertMaps(cats[k].maps, doc)]
        ELSE [cats[k] EXCEPT !.children = upsertMapInCategories(cats[k].children, catId, doc)]]

deleteMapFromTree(list, catId, mapId) ==
    updateCategory(list, catId, [kind |-> "deleteMap", mapId |-> mapId])

\* `id` is the value uid() returns inside addSubCategory
addSubCategory(list, parentId, name, id) ==
    updateCategory(list, parentId,
        [kind |-> "addChild",
         child |-> [id |-> id, name |-> name, maps |-> <<>>, children |-> <<>>]])

\* `now` is the value Date.now() returns inside renameMapInTree
renameMapInTree(list, catId, mapId, newName, now) ==
    updateCategory(list, catId,
        [kind |-> "renameMap", mapId |-> mapId, newName |-> newName, now |-> now])

UnnamedCategory == <<"(", "u", "n", "n", "a", "m", "e", "d", ")">>

\* lines 241-244
renameCategoryTree(list, id, newName) ==
    updateCategory(list, id,
        [kind |-> "rename",
         name |-> IF trim(newName) = <<>> THEN UnnamedCategory ELSE trim(newName)])

-----------------------------------------------------------------------------
(* Inputs of the helper specifications *)

SP == " "
LP == "("
RP == ")"

\* names of existing maps
NamePool ==
    { <<"X">>,
      <<"X", SP, LP, "2", RP>>,
      <<"X", SP, LP, "3", RP>>,
      <<"X", SP, LP, "1", "0", RP>>,
      <<"X", SP, LP, "0", "2", RP>>,
      Untitled,
      Untitled \o <<SP, LP, "2", RP>>,
      <<>> }

\* candidate names as a user can type them
BasePool ==
    NamePool \cup
    { <<SP>>,
      <<SP, "X", SP>>,
      <<"X", SP, LP, "2", RP, SP>>,
      <<"X", SP, LP, RP>>,
      <<"X", SP, LP, "X", RP>>,
      <<"X", LP, "2", RP>>,
      <<"X", SP, LP, "2">>,
      <<"X", SP, SP, LP, "2", RP>>,
      <<"X", SP, LP, "2", RP, SP, LP, "3", RP>>,
      <<"X", SP, LP, "2", RP, "X">>,
      <<SP, LP, "2", RP>>,
      <<LP, "2", RP>> }

\* all sequences over S of length 0..n
RECURSIVE SeqsUpTo(_, _)
SeqsUpTo(S, n) ==
    IF n = 0 THEN { <<>> }
    ELSE LET shorter == SeqsUpTo(S, n - 1)
         IN  shorter \cup { Append(q, e) : q \in { r \in shorter : Len(r) = n - 1 }, e \in S }

\* a map list with the given names: ids by position, no nodes
namedMaps(names) ==
    [k \in 1..Len(names) |-> [id |-> k, name |-> names[k], nodes |-> <<>>, updatedAt |-> 0]]

\* the application's variables in the helper specifications: not started
AppIdle ==
    /\ mounted = FALSE /\ categories = <<>> /\ currentCatId = NULL
    /\ nodes = <<>> /\ selectedId = NULL /\ mapEditing = <<>>
    /\ mapEditValue = <<>> /\ nextUid = 0 /\ last = [op |-> "none"]
    /\ editingId = NULL /\ editValue = <<>> /\ altFlipRef = 1
    /\ dragRef = [type |-> "none", id |-> NULL, nodeStartX |-> 0, nodeStartY |-> 0]
    /\ localStorage = [categories |-> <<>>, nodes |-> <<>>]
    /\ downloaded = <<>> /\ flushed = <<>>
    /\ catEditingId = NULL /\ catEditValue = <<>>

-----------------------------------------------------------------------------
(* Helper specification: uniqueMapName on every map list and base *)

InitUnique ==
    /\ call \in { [fn |-> "uniqueMapName", maps |-> namedMaps(ns), base |-> b] :
                    ns \in SeqsUpTo(NamePool, MaxMaps), b \in BasePool }
    /\ ret = <<>>
    /\ AppIdle

CallUniqueMapName ==
    /\ call.fn = "uniqueMapName" /\ ret = <<>>
    /\ ret' = <<uniqueMapName(call.maps, call.base)>>
    /\ UNCHANGED <<call, appVars>>

NextUnique == CallUniqueMapName

SpecUnique == InitUnique /\ [][NextUnique]_vars

\* C2: the name uniqueMapName returns is the name of no map in maps
C2_ResultIsFree ==
    (call.fn = "uniqueMapName" /\ ret # <<>>) => ~someNamed(call.maps, ret[1])

\* the search went past a taken root and at least one taken suffix
C2_Witness ==
    /\ call.fn = "uniqueMapName" /\ ret # <<>>
    /\ someNamed(call.maps, nameRoot(call.base))
    /\ someNamed(call.maps, suffixed(nameRoot(call.base), 2))
    /\ ~someNamed(call.maps, ret[1])

\* The reference policy of the claim, written without the code's index arithmetic:
\* t = r \o " (" \o digits \o ")" with at least one digit gives r, else t
refStrip(t) ==
    LET cuts == { k \in 0..Len(t) :
                    LET tl == SubSeq(t, k + 1, Len(t))
                    IN  /\ Len(tl) >= 4
                        /\ tl[1] = SP /\ tl[2] = LP /\ tl[Len(tl)] = RP
                        /\ \A j \in 3..(Len(tl) - 1) : IsDigit(tl[j]) }
    IN  IF cuts = {} THEN t ELSE SubSeq(t, 1, CHOOSE k \in cuts : TRUE)

refUnique(maps, t) ==
    LET root == refStrip(t)
        free == { i \in 2..(Len(maps) + 2) : ~someNamed(maps, suffixed(root, i)) }
    IN  IF ~someNamed(maps, root) THEN root
        ELSE suffixed(root, CHOOSE i \in free : \A j \in free : i <= j)

\* C3 as stated: the result is the reference policy applied to the trimmed base,
\* for every input
C3_AsStated ==
    (call.fn = "uniqueMapName" /\ ret # <<>>) =>
        ret[1] = refUnique(call.maps, trim(call.base))

\* C3 amended: an empty base is first replaced by "Untitled"; otherwise the
\* result is the reference policy applied to the trimmed base
C3_RefPolicy ==
    (call.fn = "uniqueMapName" /\ ret # <<>>) =>
        ret[1] = refUnique(call.maps,
                           IF call.base = <<>> THEN Untitled ELSE trim(call.base))

\* maps X, X (2), X (10) with base "X (10)" gave "X (3)"
C3_Witness ==
    /\ call.fn = "uniqueMapName" /\ ret # <<>>
    /\ call.base = <<"X", SP, LP, "1", "0", RP>>
    /\ someNamed(call.maps, <<"X">>)
    /\ someNamed(call.maps, <<"X", SP, LP, "2", RP>>)
    /\ someNamed(call.maps, <<"X", SP, LP, "1", "0", RP>>)
    /\ ret[1] = <<"X", SP, LP, "3", RP>>

-----------------------------------------------------------------------------
(* Helper specification: upsertMapInCategories and renameMapInTree on a    *)
(* tree with two top-level categories 1 and 2 and category 3 nested in 2.  *)
(* Category 9 is in no tree.                                               *)

TreeNames ==
    { <<"X">>, <<"X", SP, LP, "2", RP>>, <<"X", SP, LP, "3", RP>>, Untitled }

TypedNames ==
    TreeNames \cup { <<>>, <<SP>>, <<SP, "X", SP>>, <<"X", SP, LP, "1", "0", RP>> }

sampleNode ==
    [id |-> 50, label |-> <<"x">>, x |-> 0, y |-> 0, parentId |-> NULL,
     color |-> "unset", side |-> "unset"]

\* the maps of category cat: ids 10*cat + position
mapsFor(cat, names) ==
    [k \in 1..Len(names) |->
        [id |-> 10 * cat + k, name |-> names[k], nodes |-> <<>>, updatedAt |-> 0]]

\* the tree in which category target holds maps named `names`
treeWith(target, names) ==
    LET ms(cat) == mapsFor(cat, IF cat = target THEN names ELSE << <<"X">> >>)
    IN  << [id |-> 1, name |-> <<"A">>, maps |-> ms(1), children |-> <<>>],
           [id |-> 2, name |-> <<"B">>, maps |-> ms(2), children |->
               << [id |-> 3, name |-> <<"C">>, maps |-> ms(3), children |-> <<>>] >>] >>

InitTree ==
    /\ call \in
         { [fn |-> "upsertMapInCategories", cats |-> treeWith(t, ns), catId |-> t,
            doc |-> [id |-> 99, name |-> n, nodes |-> <<sampleNode>>, updatedAt |-> 7]] :
              t \in {1, 2, 3, 9}, ns \in SeqsUpTo(TreeNames, MaxMaps), n \in TreeNames }
         \cup
         { [fn |-> "renameMapInTree", cats |-> treeWith(t, ns), catId |-> t,
            mapId |-> 10 * t + k, newName |-> n, now |-> 7] :
              t \in {1, 2, 3, 9}, ns \in SeqsUpTo(TreeNames, MaxMaps),
              k \in 1..(MaxMaps + 1), n \in TypedNames }
    /\ ret = <<>>
    /\ AppIdle

CallUpsertMapInCategories ==
    /\ call.fn = "upsertMapInCategories" /\ ret = <<>>
    /\ ret' = <<upsertMapInCategories(call.cats, call.catId, call.doc)>>
    /\ UNCHANGED <<call, appVars>>

CallRenameMapInTree ==
    /\ call.fn = "renameMapInTree" /\ ret = <<>>
    /\ ret' = <<renameMapInTree(call.cats, call.catId, call.mapId, call.newName, call.now)>>
    /\ UNCHANGED <<call, appVars>>

NextTree == CallUpsertMapInCategories \/ CallRenameMapInTree

SpecTree == InitTree /\ [][NextTree]_vars

\* every category of a tree, at any depth
RECURSIVE catsOf(_)
catsOf(list) ==
    IF list = <<>> THEN {}
    ELSE {Head(list)} \cup catsOf(Head(list).children) \cup catsOf(Tail(list))

hasCat(list, id) == \E c \in catsOf(list) : c.id = id
catById(list, id) == CHOOSE c \in catsOf(list) : c.id = id

\* the tree with every map list emptied: ids, names and nesting only
RECURSIVE shape(_)
shape(list) ==
    [k \in 1..Len(list) |->
        [id |-> list[k].id, name |-> list[k].name, children |-> shape(list[k].children)]]

\* every category other than id has the same maps in both trees
othersKeepMaps(old, new, id) ==
    /\ shape(new) = shape(old)
    /\ \A c \in catsOf(old) : c.id # id => catById(new, c.id).maps = c.maps

\* C4: upsert into a present category prepends a doc with a new name and
\* replaces, at its index, the first map that has the doc's name; the other
\* categories keep their maps
C4_Upsert ==
    (call.fn = "upsertMapInCategories" /\ ret # <<>> /\ hasCat(call.cats, call.catId)) =>
        LET old == catById(call.cats, call.catId).maps
            new == catById(ret[1], call.catId).maps
            doc == call.doc
        IN  /\ othersKeepMaps(call.cats, ret[1], call.catId)
            /\ (~someNamed(old, doc.name)) => new = <<doc>> \o old
            /\ someNamed(old, doc.name) =>
                 /\ Len(new) = Len(old)
                 /\ \E i \in 1..Len(old) :
                      /\ old[i].name = doc.name
                      /\ \A j \in 1..(i - 1) : old[j].name # doc.name
                      /\ new[i] = doc /\ new[i].updatedAt = doc.updatedAt
                      /\ \A j \in 1..Len(old) : j # i => new[j] = old[j]

\* a doc replaced a map of the nested category that was not the first of its list
C4_Witness ==
    /\ call.fn = "upsertMapInCategories" /\ ret # <<>> /\ call.catId = 3
    /\ findIndexByName(catById(call.cats, 3).maps, call.doc.name) >= 1
    /\ Len(catById(ret[1], 3).maps) = Len(catById(call.cats, 3).maps)
    /\ call.doc \in Range(catById(ret[1], 3).maps)

-----------------------------------------------------------------------------
(* Helper specification: buildChildrenMap and autoLayout (run once and     *)
(* again on its own output) on every list of up to MaxNodes nodes with ids *)
(* 1, 2, ... in input order and every choice of parent: none, any node     *)
(* (itself included, so cycles occur) or an id of no node.                 *)

DanglingId == MaxNodes + 1

\* node k of an input: spread c = 0 puts every node at the origin
inputNode(k, parent, c) ==
    [id |-> k, label |-> <<"n">>, x |-> FromInt(100 * k * c), y |-> FromInt(0 - 40 * k * c),
     parentId |-> parent, color |-> "unset", side |-> "unset"]

InitLayout ==
    /\ \E n \in 0..MaxNodes, c \in {0, 1}, f \in {"buildChildrenMap", "autoLayout"} :
         \E ps \in [1..n -> {NULL, DanglingId} \cup 1..n] :
            call = [fn |-> f, nodes |-> [k \in 1..n |-> inputNode(k, ps[k], c)]]
    /\ ret = <<>>
    /\ AppIdle

CallBuildChildrenMap ==
    /\ call.fn = "buildChildrenMap" /\ ret = <<>>
    /\ ret' = <<buildChildrenMap(call.nodes)>>
    /\ UNCHANGED <<call, appVars>>

CallAutoLayout ==
    /\ call.fn = "autoLayout" /\ ret = <<>>
    /\ ret' = <<autoLayout(call.nodes)>>
    /\ UNCHANGED <<call, appVars>>

\* onAutoLayout pressed again: autoLayout on the previous output
CallAutoLayoutAgain ==
    /\ call.fn = "autoLayout" /\ Len(ret) = 1
    /\ ret' = Append(ret, autoLayout(ret[1]))
    /\ UNCHANGED <<call, appVars>>

NextLayout == CallBuildChildrenMap \/ CallAutoLayout \/ CallAutoLayoutAgain

SpecLayout == InitLayout /\ [][NextLayout]_vars

isRootOf(ns, n) == n.parentId = NULL \/ n.parentId \notin nodeIds(ns)
kidsOf(ns, id) == SelectSeq(ns, LAMBDA n : n.parentId = id)

C8_ChildrenMap ==
    (call.fn = "buildChildrenMap" /\ ret # <<>>) =>
        LET ns == call.nodes
            m == ret[1]
        IN  /\ Range(m.roots) = { ns[k] : k \in { j \in 1..Len(ns) : isRootOf(ns, ns[j]) } }
            /\ \A i, j \in 1..Len(m.roots) : i # j => m.roots[i] # m.roots[j]
            /\ DOMAIN m.byParent = { ns[k].parentId : k \in 1..Len(ns) }
            /\ \A key \in DOMAIN m.byParent : m.byParent[key] = kidsOf(ns, key)
            /\ \A k \in 1..Len(ns) :
                 Cardinality({ key \in DOMAIN m.byParent :
                                 \E i \in 1..Len(m.byParent[key]) :
                                     m.byParent[key][i] = ns[k] }) = 1
            /\ \A r \in 1..Len(ns) :
                 (\A k \in 1..Len(ns) :
                     ns[k].parentId = (IF k = r THEN NULL ELSE ns[r].id)) =>
                   /\ m.roots = <<ns[r]>>
                   /\ Len(childrenOf(m.byParent, ns[r].id)) = Len(ns) - 1

\* one node without parent, not the first of the list, and three pointing at it
C8_Witness ==
    /\ call.fn = "buildChildrenMap" /\ ret # <<>> /\ Len(call.nodes) = 4
    /\ \A k \in 1..4 : call.nodes[k].parentId = (IF k = 2 THEN NULL ELSE 2)
    /\ Len(ret[1].roots) = 1
    /\ Len(ret[1].byParent[2]) = 3

\* the leaves below the nodes of q, depth first, children in input order
RECURSIVE leavesBelow(_, _)
leavesBelow(ns, q) ==
    IF q = <<>> THEN <<>>
    ELSE LET kids == kidsOf(ns, Head(q).id)
         IN  (IF kids = <<>> THEN <<Head(q).id>> ELSE leavesBelow(ns, kids))
             \o leavesBelow(ns, Tail(q))

xOf(out, id) == out[CHOOSE k \in 1..Len(out) : out[k].id = id].x

increasingX(out, leafIds) ==
    \A i, j \in 1..Len(leafIds) : i < j => xOf(out, leafIds[i]) < xOf(out, leafIds[j])

\* C9 as stated: with all roots taken in input order, the leaves in depth-first
\* input order have strictly increasing x
C9_AsStated ==
    (call.fn = "autoLayout" /\ Len(ret) >= 1) =>
        increasingX(ret[1],
            leavesBelow(call.nodes, SelectSeq(call.nodes, LAMBDA n : isRootOf(call.nodes, n))))

\* C9 amended: the roots without parent come first, in input order, then the
\* roots with a dangling parent, in input order; children in input order; the
\* leaves in that depth-first order have strictly increasing x
C9_TraversalOrder ==
    (call.fn = "autoLayout" /\ Len(ret) >= 1) =>
        increasingX(ret[1],
            leavesBelow(call.nodes,
                SelectSeq(call.nodes, LAMBDA n : n.parentId = NULL)
                \o SelectSeq(call.nodes, LAMBDA n : n.parentId # NULL
                                                    /\ n.parentId \notin nodeIds(call.nodes))))

\* a dangling-parent root with a child precedes a parentless root in the
\* input, and is laid out to its right
C9_Witness ==
    /\ call.fn = "autoLayout" /\ Len(ret) >= 1 /\ Len(call.nodes) >= 3
    /\ call.nodes[1].parentId = DanglingId
    /\ call.nodes[2].parentId = 1
    /\ call.nodes[3].parentId = NULL
    /\ ret[1][3].x < ret[1][2].x

\* the ids reachable from a root through parent links, after at most n rounds
RECURSIVE reached(_, _, _)
reached(ns, R, n) ==
    IF n = 0 THEN R
    ELSE reached(ns, R \cup { ns[k].id : k \in { j \in 1..Len(ns) : ns[j].parentId \in R } },
                 n - 1)

\* every node hangs below a root: the parent links have no cycle
isForest(ns) ==
    reached(ns, { ns[k].id : k \in { j \in 1..Len(ns) : isRootOf(ns, ns[j]) } }, Len(ns))
        = nodeIds(ns)

\* C10 as stated: for every node sequence a second autoLayout changes nothing
C10_AsStated ==
    (call.fn = "autoLayout" /\ Len(ret) = 2) => ret[2] = ret[1]

\* C10 amended: for every node sequence whose parent links have no cycle a
\* second autoLayout changes nothing
C10_IdempotentOnForests ==
    (call.fn = "autoLayout" /\ Len(ret) = 2 /\ isForest(call.nodes)) => ret[2] = ret[1]

\* a forest of two trees whose first layout moved nodes was laid out twice
C10_Witness ==
    /\ call.fn = "autoLayout" /\ Len(ret) = 2 /\ Len(call.nodes) = 4
    /\ isForest(call.nodes)
    /\ Len(kidsOf(call.nodes, 1)) = 2
    /\ call.nodes[4].parentId = DanglingId
    /\ ret[1] # call.nodes
    /\ ret[2] = ret[1]

-----------------------------------------------------------------------------
(* JSON texts, part_000:186-201, 703-735.  A text is [t |-> "garbage"]      *)
(* when JSON.parse rejects it and [t |-> "json", v |-> value] otherwise; a  *)
(* JSON value is [t |-> "null"], [t |-> "scalar"] (a number, string or      *)
(* boolean), [t |-> "arr", items |-> <<...>>] or [t |-> "obj", ...] with    *)
(* one field per key the code reads, <<>> when the key is missing and       *)
(* <<value>> otherwise.                                                     *)

Garbage == [t |-> "garbage"]
JsonText(v) == [t |-> "json", v |-> v]
JsonNull == [t |-> "null"]
JsonScalar == [t |-> "scalar"]
JsonArray(items) == [t |-> "arr", items |-> items]
JsonObject(nodesField, categoriesField) ==
    [t |-> "obj", nodes |-> nodesField, categories |-> categoriesField]

\* the number Infinity: above every finite coordinate
Infinity == 2147483647

\* variant of stringifyNumber that writes every number as it is
stringifyNumber_raw(v) == v

\* JSON.stringify of a number: null for a number that is not finite
stringifyNumber(v) == IF v = Infinity THEN NULL ELSE v

\* JSON.stringify of a node: a key whose value is undefined is left out
stringifyNode(n) ==
    [id |-> n.id, label |-> n.label, x |-> stringifyNumber(n.x),
     y |-> stringifyNumber(n.y), parentId |-> n.parentId, color |-> n.color,
     side |-> IF n.side = "unset" THEN <<>> ELSE <<n.side>>]

\* the object JSON.parse builds for a node: a missing key reads as undefined
parseNode(j) ==
    [id |-> j.id, label |-> j.label, x |-> j.x, y |-> j.y, parentId |-> j.parentId,
     color |-> j.color, side |-> IF j.side = <<>> THEN "unset" ELSE j.side[1]]

stringifyNodes(ns) == JsonArray([k \in 1..Len(ns) |-> stringifyNode(ns[k])])
parseNodes(arr) == [k \in 1..Len(arr.items) |-> parseNode(arr.items[k])]

\* variant of parsedNodeList that takes only a bare array
parsedNodeList_bare(text) ==
    IF text.t = "json" /\ text.v.t = "arr" THEN <<parseNodes(text.v)>> ELSE <<>>

\* lines 717-719 and 731-733: the array setNodes is called with, <<>> when
\* the text is rejected
parsedNodeList(text) ==
    IF text.t # "json" THEN <<>>
    ELSE LET data == text.v
         IN  IF data.t = "arr" THEN <<parseNodes(data)>>
             ELSE IF data.t = "obj" /\ data.nodes # <<>> /\ data.nodes[1].t = "arr"
                  THEN <<parseNodes(data.nodes[1])>>
                  ELSE <<>>

\* the literal of line 190
Category == <<"C", "a", "t", "e", "g", "o", "r", "y">>

\* a value of the key id that is falsy: "", 0, null or false
FalsyId == 0

\* a JSON object read as a category: each of the four keys missing (<<>>) or
\* holding a value; id holds FalsyId or an id, name a string, maps and children
\* any JSON value
JsonCategory(id, name, maps, children) ==
    [t |-> "cat", id |-> id, name |-> name, maps |-> maps, children |-> children]

\* JSON.stringify and JSON.parse of a MindMapDoc
stringifyDoc(d) ==
    [id |-> d.id, name |-> d.name, nodes |-> stringifyNodes(d.nodes), updatedAt |-> d.updatedAt]
parseDoc(j) ==
    [id |-> j.id, name |-> j.name, nodes |-> parseNodes(j.nodes), updatedAt |-> j.updatedAt]

\* variant of stringifyCategories that writes no nested categories
stringifyCategories_flat(list) ==
    JsonArray([k \in 1..Len(list) |->
        JsonCategory(<<list[k].id>>, <<list[k].name>>,
                     <<JsonArray([i \in 1..Len(list[k].maps) |-> stringifyDoc(list[k].maps[i])])>>,
                     <<JsonArray(<<>>)>>)])

\* JSON.stringify of a category tree
RECURSIVE stringifyCategories(_)
stringifyCategories(list) ==
    JsonArray([k \in 1..Len(list) |->
        JsonCategory(<<list[k].id>>, <<list[k].name>>,
                     <<JsonArray([i \in 1..Len(list[k].maps) |-> stringifyDoc(list[k].maps[i])])>>,
                     <<stringifyCategories(list[k].children)>>)])

\* norm of lines 188-195, given the array and the number of uid() calls made
\* so far: ok is false when reading a key of null has thrown
RECURSIVE normItems(_, _)
normItems(items, next) ==
    IF items = <<>> THEN [ok |-> TRUE, cats |-> <<>>, next |-> next]
    ELSE LET c == Head(items)
         IN  IF c.t = "null" THEN [ok |-> FALSE, cats |-> <<>>, next |-> next]
             ELSE LET isCat == c.t = "cat"
                      hasId == isCat /\ c.id # <<>> /\ c.id[1] # FalsyId
                      hasName == isCat /\ c.name # <<>> /\ c.name[1] # <<>>
                      hasMaps == isCat /\ c.maps # <<>> /\ c.maps[1].t = "arr"
                      hasKids == isCat /\ c.children # <<>> /\ c.children[1].t = "arr"
                      next1 == IF hasId THEN next ELSE next + 1
                      kids == IF hasKids THEN normItems(c.children[1].items, next1)
                              ELSE [ok |-> TRUE, cats |-> <<>>, next |-> next1]
                      rest == normItems(Tail(items), kids.next)
                      cat == [id |-> IF hasId THEN c.id[1] ELSE next + 1,
                              name |-> IF hasName THEN c.name[1] ELSE Category,
                              maps |-> IF hasMaps
                                       THEN [i \in 1..Len(c.maps[1].items) |->
                                                parseDoc(c.maps[1].items[i])]
                                       ELSE <<>>,
                              children |-> kids.cats]
                  IN  [ok |-> kids.ok /\ rest.ok, cats |-> <<cat>> \o rest.cats,
                       next |-> rest.next]

\* variant of safeParseCategories that takes only a bare array
safeParseCategories_bare(raw, next) ==
    IF raw = <<>> \/ raw[1].t # "json" \/ raw[1].v.t # "arr"
    THEN [cats |-> <<>>, next |-> next]
    ELSE LET r == normItems(raw[1].v.items, next)
         IN  IF r.ok THEN [cats |-> r.cats, next |-> r.next]
             ELSE [cats |-> <<>>, next |-> r.next]

\* lines 186-201: raw is <<>> for null or the empty string, else <<text>>; the
\* categories returned and the number of uid() calls made
safeParseCategories(raw, next) ==
    IF raw = <<>> \/ raw[1].t # "json" THEN [cats |-> <<>>, next |-> next]
    ELSE LET parsed == raw[1].v
             arr == IF parsed.t = "arr" THEN <<parsed>>
                    ELSE IF parsed.t = "obj" /\ parsed.categories # <<>>
                            /\ parsed.categories[1].t = "arr"
                         THEN <<parsed.categories[1]>>
                         ELSE <<>>
         IN  IF arr = <<>> THEN [cats |-> <<>>, next |-> next]
             ELSE LET r == normItems(arr[1].items, next)
                  IN  IF r.ok THEN [cats |-> r.cats, next |-> r.next]
                      ELSE [cats |-> <<>>, next |-> r.next]

-----------------------------------------------------------------------------
(* The application: MindMapApp's state and handlers, part_000:450-618.     *)
(* Each action is one handler run to completion, state updaters included.  *)

RootId == 0     \* the id "root" of INITIAL_NODES; uid() returns 1, 2, ...

CentralIdea == <<"C", "e", "n", "t", "r", "a", "l", " ", "I", "d", "e", "a">>
General == <<"G", "e", "n", "e", "r", "a", "l">>
CategoryPrefix == <<"C", "a", "t", "e", "g", "o", "r", "y", " ">>
RootLabel == <<"R", "o", "o", "t">>

INITIAL_NODES ==
    << [id |-> RootId, label |-> CentralIdea, x |-> 0, y |-> 0, parentId |-> NULL,
        color |-> "#fef08a", side |-> "unset"] >>

\* the value the next uid() call returns
uid == nextUid + 1

\* Inputs of the handlers
Times == {7}                                      \* Date.now()
PromptAnswers ==                                  \* prompt(): <<>> is Cancel
    { <<>>, << <<"X">> >>, << <<"X", SP, LP, "2", RP>> >>, << <<SP, "X">> >> }
EditValues ==                                     \* text typed into the rename input
    { <<>>, <<SP, "X">>, <<"X", SP, LP, "2", RP>> }
CatNameInputs == { <<>>, <<"W", SP>> }            \* the "New category" input
RandomRoots == { <<60, 20>> }                    \* Math.random() in addRoot
AbsentId == UidCap + 1                            \* an id uid() never returns
\* the stale category ids a handler is called with; none in the canvas
\* specification, whose subject is the node list
AbsentIds == IF call.fn = "canvas" THEN {} ELSE {AbsentId}

catIds(list) == { c.id : c \in catsOf(list) }

AppStart ==
    /\ mounted = FALSE
    /\ categories = <<>>
    /\ currentCatId = NULL
    /\ nodes = INITIAL_NODES
    /\ selectedId = RootId
    /\ mapEditing = <<>>
    /\ mapEditValue = <<>>
    /\ catEditingId = NULL
    /\ catEditValue = <<>>
    /\ editingId = NULL
    /\ editValue = <<>>
    /\ altFlipRef = 1
    /\ dragRef = [type |-> "none", id |-> NULL, nodeStartX |-> 0, nodeStartY |-> 0]
    /\ downloaded = <<>>
    /\ flushed = <<>>
    /\ nextUid = 0
    /\ last = [op |-> "none"]
    /\ ret = <<>>

\* nothing is stored yet
NoStorage == localStorage = [categories |-> <<>>, nodes |-> <<>>]

Init == AppStart /\ NoStorage /\ call = [fn |-> "app"]

\* the effects of the first render: the mount effect, lines 485-495, then the
\* persist effect of line 496, which still sees the categories of that render
MountEffect ==
    /\ ~mounted
    /\ LET read == safeParseCategories(localStorage.categories, nextUid)
           def == [id |-> read.next + 1, name |-> General, maps |-> <<>>, children |-> <<>>]
           initial == IF Len(read.cats) = 0 THEN <<def>> ELSE read.cats
       IN  /\ categories' = initial
           /\ currentCatId' = initial[1].id
           /\ nextUid' = IF Len(read.cats) = 0 THEN read.next + 1 ELSE read.next
    /\ mounted' = TRUE
    /\ localStorage' = [localStorage EXCEPT
                            !.categories = <<JsonText(stringifyCategories(categories))>>]
    /\ flushed' = <<categories>>
    /\ last' = [op |-> "mount", before |-> IF last.op = "reload" THEN last.tree ELSE <<>>]
    /\ UNCHANGED <<nodes, selectedId, mapEditing, mapEditValue, call, ret, canvasVars,
                   downloaded, catEditVars>>

\* line 496 after a render in which categories has changed
PersistEffect ==
    /\ mounted /\ flushed # <<categories>>
    /\ localStorage' = [localStorage EXCEPT
                            !.categories = <<JsonText(stringifyCategories(categories))>>]
    /\ flushed' = <<categories>>
    /\ UNCHANGED <<mounted, categories, currentCatId, nodes, selectedId, mapEditing,
                   mapEditValue, nextUid, last, call, ret, canvasVars, downloaded,
                   catEditVars>>

\* no effect is pending
EffectsDone == mounted /\ flushed = <<categories>>

\* the page is loaded again: the state of lines 451-481 starts afresh, what is
\* stored stays, and uid() goes on returning new ids
Reload ==
    /\ EffectsDone
    /\ mounted' = FALSE /\ categories' = <<>> /\ currentCatId' = NULL
    /\ nodes' = INITIAL_NODES /\ selectedId' = RootId
    /\ mapEditing' = <<>> /\ mapEditValue' = <<>>
    /\ catEditingId' = NULL /\ catEditValue' = <<>>
    /\ editingId' = NULL /\ editValue' = <<>> /\ altFlipRef' = 1
    /\ dragRef' = [type |-> "none", id |-> NULL, nodeStartX |-> 0, nodeStartY |-> 0]
    /\ flushed' = <<>>
    /\ last' = [op |-> "reload", tree |-> categories]
    /\ UNCHANGED <<nextUid, call, ret, localStorage, downloaded>>

\* lines 499-506; the text of the "New category" input is an input of the action
createCategory ==
    /\ mounted /\ nextUid < UidCap
    /\ \E newCatName \in CatNameInputs, now \in Times :
         LET name == IF trim(newCatName) # <<>> THEN trim(newCatName)
                     ELSE CategoryPrefix \o slice(numberToString(now), -4, 4)
             cat == [id |-> uid, name |-> name, maps |-> <<>>, children |-> <<>>]
         IN  /\ categories' = <<cat>> \o categories
             /\ currentCatId' = cat.id
    /\ nextUid' = nextUid + 1
    /\ last' = [op |-> "other"]
    /\ UNCHANGED <<mounted, nodes, selectedId, mapEditing, mapEditValue, call, ret,
                   canvasVars, ioVars, catEditVars>>

\* lines 508-513
createSubCategory ==
    /\ mounted /\ nextUid < UidCap
    /\ \E parentId \in catIds(categories), answer \in PromptAnswers :
         LET name == IF answer = <<>> THEN <<>> ELSE trim(answer[1])
         IN  IF name = <<>>
             THEN UNCHANGED <<categories, nextUid>>
             ELSE /\ categories' = addSubCategory(categories, parentId, name, uid)
                  /\ nextUid' = nextUid + 1
    /\ last' = [op |-> "other"]
    /\ UNCHANGED <<mounted, currentCatId, nodes, selectedId, mapEditing, mapEditValue,
                   call, ret, canvasVars, ioVars, catEditVars>>

\* onSelect, line 936
selectCategory ==
    /\ mounted
    /\ \E id \in catIds(categories) : currentCatId' = id
    /\ last' = [op |-> "other"]
    /\ UNCHANGED <<mounted, categories, nodes, selectedId, mapEditing, mapEditValue,
                   nextUid, call, ret, canvasVars, ioVars, catEditVars>>

\* text typed into the category rename input
CatEditValues == { <<>>, <<SP, "V">> }

\* lines 525-529: double click on a category shown in the sidebar
startCategoryRename ==
    /\ mounted
    /\ \E c \in catsOf(categories) :
         /\ catEditingId' = c.id
         /\ catEditValue' = c.name
    /\ last' = [op |-> "other"]
    /\ UNCHANGED <<mounted, categories, currentCatId, nodes, selectedId, mapEditing,
                   mapEditValue, nextUid, call, ret, canvasVars, ioVars>>

\* the rename input of lines 954-970 is rendered
catInputShown ==
    mounted /\ catEditingId # NULL /\ findCategoryById(categories, catEditingId) # <<>>

\* onChange, line 963
catEditChange ==
    /\ catInputShown
    /\ \E v \in CatEditValues : catEditValue' = v
    /\ last' = [op |-> "other"]
    /\ UNCHANGED <<mounted, categories, currentCatId, nodes, selectedId, mapEditing,
                   mapEditValue, catEditingId, nextUid, call, ret, canvasVars, ioVars>>

\* lines 530-534: blur or Enter in the rename input
commitCategoryRename ==
    /\ catInputShown
    /\ categories' = renameCategoryTree(categories, catEditingId, catEditValue)
    /\ catEditingId' = NULL
    /\ last' = [op |-> "commitCategoryRename"]
    /\ UNCHANGED <<mounted, currentCatId, nodes, selectedId, mapEditing, mapEditValue,
                   catEditValue, nextUid, call, ret, canvasVars, ioVars>>

\* line 535: Escape in the rename input
cancelCategoryRename ==
    /\ catInputShown
    /\ catEditingId' = NULL
    /\ last' = [op |-> "other"]
    /\ UNCHANGED <<mounted, categories, currentCatId, nodes, selectedId, mapEditing,
                   mapEditValue, catEditValue, nextUid, call, ret, canvasVars, ioVars>>

\* lines 552-560, called without arguments (lines 880, 974)
saveCurrentAsMap ==
    /\ mounted /\ nextUid < UidCap
    /\ \E answer \in PromptAnswers, now \in Times :
         LET catId == currentCatId
             base == IF answer = <<>> \/ answer[1] = <<>> THEN Untitled ELSE answer[1]
             cat == findCategoryById(categories, catId)
             unique == uniqueMapName(IF cat = <<>> THEN <<>> ELSE cat[1].maps, base)
             doc == [id |-> uid, name |-> unique, nodes |-> nodes, updatedAt |-> now]
         IN  IF catId = NULL
             THEN /\ last' = [op |-> "other"]
                  /\ UNCHANGED <<categories, nextUid>>
             ELSE /\ categories' = upsertMapInCategories(categories, catId, doc)
                  /\ nextUid' = nextUid + 1
                  /\ last' = [op |-> "saveCurrentAsMap",
                              hit |-> cat # <<>> /\ someNamed(cat[1].maps, base)]
    /\ UNCHANGED <<mounted, currentCatId, nodes, selectedId, mapEditing, mapEditValue,
                   call, ret, canvasVars, ioVars, catEditVars>>

\* lines 562-572
createEmptyMapHere ==
    /\ mounted /\ nextUid < UidCap
    /\ \E catId \in catIds(categories) \cup AbsentIds, answer \in PromptAnswers,
          now \in Times :
         LET cat == findCategoryById(categories, catId)
         IN  IF cat = <<>>
             THEN /\ last' = [op |-> "noCategory"]
                  /\ UNCHANGED <<categories, currentCatId, nodes, selectedId, nextUid>>
             ELSE LET suggested == uniqueMapName(cat[1].maps, Untitled)
                      name == IF answer = <<>> \/ answer[1] = <<>> THEN suggested
                              ELSE answer[1]
                      doc == [id |-> uid, name |-> name, nodes |-> INITIAL_NODES,
                              updatedAt |-> now]
                  IN  /\ categories' = upsertMapInCategories(categories, catId, doc)
                      /\ currentCatId' = catId
                      /\ nodes' = doc.nodes
                      /\ selectedId' = IF Len(doc.nodes) > 0 THEN doc.nodes[1].id ELSE NULL
                      /\ nextUid' = nextUid + 1
                      /\ last' = IF catId \notin catIds(categories)
                                 THEN [op |-> "noCategory"]
                                 ELSE [op |-> "createEmptyMapHere",
                                       hit |-> someNamed(cat[1].maps, name)]
    /\ UNCHANGED <<mounted, mapEditing, mapEditValue, call, ret, canvasVars, ioVars,
                   catEditVars>>

\* lines 538-541: double click on a map shown in the sidebar
startMapRename ==
    /\ mounted
    /\ \E c \in catsOf(categories) : \E k \in 1..Len(c.maps) :
         /\ mapEditing' = << [catId |-> c.id, mapId |-> c.maps[k].id] >>
         /\ mapEditValue' = c.maps[k].name
    /\ last' = [op |-> "other"]
    /\ UNCHANGED <<mounted, categories, currentCatId, nodes, selectedId, nextUid,
                   call, ret, canvasVars, ioVars, catEditVars>>

\* onMapEditChange, line 945
mapEditChange ==
    /\ mounted /\ mapEditing # <<>>
    /\ \E v \in EditValues : mapEditValue' = v
    /\ last' = [op |-> "other"]
    /\ UNCHANGED <<mounted, categories, currentCatId, nodes, selectedId, mapEditing,
                   nextUid, call, ret, canvasVars, ioVars, catEditVars>>

\* history only: the rename names a map of the category, and another map of
\* the category already has the trimmed requested name
renameCollides(list, catId, mapId, newName) ==
    \E c \in catsOf(list) :
        /\ c.id = catId
        /\ \E k \in 1..Len(c.maps) : c.maps[k].id = mapId
        /\ \E k \in 1..Len(c.maps) :
              c.maps[k].id # mapId /\ c.maps[k].name = trim(newName)

\* history only: the text to commit is the present name of the map being
\* renamed
renameUntouched(list, catId, mapId, newName) ==
    \E c \in catsOf(list) :
        /\ c.id = catId
        /\ \E k \in 1..Len(c.maps) : c.maps[k].id = mapId /\ c.maps[k].name = newName

\* lines 543-547
commitMapRename ==
    /\ mounted
    /\ IF mapEditing = <<>>
       THEN /\ last' = [op |-> "other"]
            /\ UNCHANGED <<categories, mapEditing>>
       ELSE \E now \in Times :
              /\ categories' = renameMapInTree(categories, mapEditing[1].catId,
                                               mapEditing[1].mapId, mapEditValue, now)
              /\ mapEditing' = <<>>
              /\ last' = [op |-> "commitMapRename",
                          hit |-> renameCollides(categories, mapEditing[1].catId,
                                                 mapEditing[1].mapId, mapEditValue),
                          same |-> renameUntouched(categories, mapEditing[1].catId,
                                                   mapEditing[1].mapId, mapEditValue)]
    /\ UNCHANGED <<mounted, currentCatId, nodes, selectedId, mapEditValue, nextUid,
                   call, ret, canvasVars, ioVars, catEditVars>>

\* line 549
cancelMapRename ==
    /\ mounted /\ mapEditing # <<>>
    /\ mapEditing' = <<>>
    /\ last' = [op |-> "other"]
    /\ UNCHANGED <<mounted, categories, currentCatId, nodes, selectedId, mapEditValue,
                   nextUid, call, ret, canvasVars, ioVars, catEditVars>>

\* lines 582-585; confirm() is an input
deleteMap ==
    /\ mounted
    /\ \E c \in catsOf(categories) : \E k \in 1..Len(c.maps) : \E confirmed \in BOOLEAN :
         IF ~confirmed
         THEN /\ last' = [op |-> "other"]
              /\ UNCHANGED categories
         ELSE /\ categories' = deleteMapFromTree(categories, c.id, c.maps[k].id)
              /\ last' = [op |-> "deleteMap", hit |-> TRUE]
    /\ UNCHANGED <<mounted, currentCatId, nodes, selectedId, mapEditing, mapEditValue,
                   nextUid, call, ret, canvasVars, ioVars, catEditVars>>

\* cat?.maps.find((m) => m.id === mapId) || null
findMapById(maps, mapId) ==
    LET hits == { k \in 1..Len(maps) : maps[k].id = mapId }
    IN  IF hits = {} THEN <<>> ELSE << maps[CHOOSE k \in hits : \A j \in hits : k <= j] >>

\* lines 574-580
loadMap ==
    /\ mounted
    /\ \E catId \in catIds(categories) \cup AbsentIds,
          mapId \in { m.id : m \in UNION { Range(c.maps) : c \in catsOf(categories) } }
                    \cup {AbsentId} :
         LET cat == findCategoryById(categories, catId)
             doc == IF cat = <<>> THEN <<>> ELSE findMapById(cat[1].maps, mapId)
         IN  /\ IF doc = <<>>
                THEN UNCHANGED <<nodes, selectedId>>
                ELSE /\ nodes' = doc[1].nodes
                     /\ selectedId' = IF Len(doc[1].nodes) > 0 THEN doc[1].nodes[1].id
                                      ELSE NULL
             /\ last' = IF catId \notin catIds(categories)
                        THEN [op |-> "loadMapNoCategory"]
                        ELSE [op |-> "other"]
    /\ UNCHANGED <<mounted, categories, currentCatId, mapEditing, mapEditValue, nextUid,
                   call, ret, canvasVars, ioVars, catEditVars>>

\* lines 608-612
addRoot ==
    /\ mounted /\ nextUid < UidCap /\ Len(nodes) < NodeCap
    /\ \E r \in RandomRoots :
         LET newNode == [id |-> uid, label |-> RootLabel, x |-> r[1], y |-> r[2],
                         parentId |-> NULL, color |-> "#e9d5ff", side |-> "unset"]
         IN  /\ nodes' = Append(nodes, newNode)
             /\ selectedId' = uid
    /\ nextUid' = nextUid + 1
    /\ last' = [op |-> "other"]
    /\ UNCHANGED <<mounted, categories, currentCatId, mapEditing, mapEditValue, call, ret,
                   canvasVars, ioVars, catEditVars>>

Next ==
    \/ MountEffect
    \/ createCategory
    \/ createSubCategory
    \/ selectCategory
    \/ saveCurrentAsMap
    \/ createEmptyMapHere
    \/ startMapRename
    \/ mapEditChange
    \/ commitMapRename
    \/ cancelMapRename
    \/ deleteMap
    \/ loadMap
    \/ addRoot

Spec == Init /\ [][Next]_vars

\* no two maps of the list have the same name
uniqueNames(maps) ==
    \A i, j \in 1..Len(maps) : i # j => maps[i].name # maps[j].name

\* C1: no category contains two maps with the same name
C1_UniqueMapNames ==
    \A c \in catsOf(categories) : uniqueNames(c.maps)

\* a rename to a sibling's name was committed in a category of two or more maps
C1_Witness ==
    /\ last.op = "commitMapRename" /\ last.hit
    /\ \E c \in catsOf(categories) : Len(c.maps) >= 2 /\ uniqueNames(c.maps)

\* C5: a saveCurrentAsMap step given the name of a map of the target category
\* replaces that map by the new document (same name, the canvas nodes) and
\* leaves the number of maps of the category unchanged
C5_ResaveReplaces ==
    [][ (last'.op = "saveCurrentAsMap" /\ last'.hit) =>
          LET old == catById(categories, currentCatId).maps
              new == catById(categories', currentCatId).maps
          IN  /\ Len(new) = Len(old)
              /\ \E k \in 1..Len(old) :
                   /\ new[k].name = old[k].name
                   /\ new[k].id # old[k].id
                   /\ new[k].nodes = nodes ]_vars

-----------------------------------------------------------------------------
(* The canvas: the node handlers of MindMapApp, part_000:588-638, 768-777,  *)
(* 1010-1012.  The view transform (scale, tx, ty, panning) is not part of   *)
(* the model: pointer positions are given in canvas coordinates.            *)

Empty == <<"(", "e", "m", "p", "t", "y", ")">>
NewNode == <<"N", "e", "w", " ", "N", "o", "d", "e">>

\* variant of renameNode that stores the text as typed
renameNode_untrimmed(ns, id, newLabel) ==
    [k \in 1..Len(ns) |-> IF ns[k].id = id THEN [ns[k] EXCEPT !.label = newLabel]
                                               ELSE ns[k]]

\* lines 169-173
renameNode(ns, id, newLabel) ==
    LET label == trim(newLabel)
        safe == IF Len(label) # 0 THEN label ELSE Empty
    IN  [k \in 1..Len(ns) |-> IF ns[k].id = id THEN [ns[k] EXCEPT !.label = safe]
                                               ELSE ns[k]]

\* the plus buttons pressed in a run: one that offsets x and one that offsets y
PlusDirs == {"left", "down"}

\* lines 175-183, <<>> for null
directionOffset(dir) ==
    CASE dir = "left"  -> << <<FromInt(-160), 0>> >>
      [] dir = "right" -> << <<FromInt(160), 0>> >>
      [] dir = "up"    -> << <<0, FromInt(-100)>> >>
      [] dir = "down"  -> << <<0, FromInt(100)>> >>
      [] OTHER         -> <<>>

\* useState(true) and useState(false), lines 465-466: no handler sets them
alternateSide == TRUE
autoLayoutOnAdd == FALSE

\* line 588: nodes.find((n) => n.id === selectedId) || null
findNode(ns, id) ==
    LET hits == { k \in 1..Len(ns) : ns[k].id = id }
    IN  IF hits = {} THEN <<>> ELSE << ns[CHOOSE k \in hits : \A j \in hits : k <= j] >>

selectedNode == findNode(nodes, selectedId)

\* variant of scanPass that marks nothing
scanPass_none(ns, k, st) == st

\* one pass of the for loop of line 616 from position k on: the set after the
\* pass and whether the pass added to it
RECURSIVE scanPass(_, _, _)
scanPass(ns, k, st) ==
    IF k > Len(ns) THEN st
    ELSE LET n == ns[k]
         IN  IF n.id \notin st.toDelete /\ n.parentId # NULL /\ n.parentId \in st.toDelete
             THEN scanPass(ns, k + 1, [toDelete |-> st.toDelete \cup {n.id},
                                       changed |-> TRUE])
             ELSE scanPass(ns, k + 1, st)

\* variant of markLoop that stops after the first pass
markLoop_onePass(ns, toDelete, passes) ==
    [toDelete |-> scanPass(ns, 1, [toDelete |-> toDelete, changed |-> FALSE]).toDelete,
     passes |-> passes + 1]

\* the while loop of line 616: the final set and the number of passes made
RECURSIVE markLoop(_, _, _)
markLoop(ns, toDelete, passes) ==
    LET after == scanPass(ns, 1, [toDelete |-> toDelete, changed |-> FALSE])
    IN  IF after.changed THEN markLoop(ns, after.toDelete, passes + 1)
        ELSE [toDelete |-> after.toDelete, passes |-> passes + 1]

\* Math.random() * 80 - 40 and Math.random() * 40 - 20, lines 596-600
Jitters == { FromInt(4) }
\* where a dragged node is dropped
Spots == { <<FromInt(30), FromInt(-20)>> }
\* text typed into the node's rename input
LabelInputs == { <<SP, "N">> }

\* lines 589-606: addChild(parentOverride, dir) and the addChildAt it calls.
\* The toolbar calls addChild(null, null) (line 872), a node's plus buttons
\* addChild(node, dir) (lines 1012, 295).
addChild ==
    /\ mounted /\ nextUid < UidCap /\ Len(nodes) < NodeCap
    /\ \E parentOverride \in {<<>>} \cup { <<nodes[k]>> : k \in 1..Len(nodes) },
          dir \in PlusDirs \cup {"unset"}, rnd \in Jitters :
         /\ (parentOverride = <<>>) = (dir = "unset")
         /\ LET parent == IF parentOverride # <<>> THEN parentOverride ELSE selectedNode
                parentId == IF parent # <<>> THEN parent[1].id ELSE NULL
                id == uid
                px == IF parent # <<>> THEN parent[1].x ELSE 0
                py == IF parent # <<>> THEN parent[1].y ELSE 0
                off0 == directionOffset(dir)
                lr == IF alternateSide THEN -altFlipRef ELSE 1
                off == IF off0 = <<>> THEN <<lr * FromInt(160), rnd>>
                       ELSE IF dir \in {"up", "down"}
                            THEN <<off0[1][1] + rnd, off0[1][2]>>
                            ELSE <<off0[1][1], off0[1][2] + rnd>>
                side == IF off0 = <<>> THEN (IF off[1] >= 0 THEN "right" ELSE "left")
                        ELSE dir
                newNode == [id |-> id, label |-> NewNode, x |-> px + off[1],
                            y |-> py + off[2], parentId |-> parentId,
                            color |-> "#f1f5f9", side |-> side]
            IN  /\ altFlipRef' = IF off0 = <<>> /\ alternateSide THEN -altFlipRef
                                 ELSE altFlipRef
                /\ nodes' = IF autoLayoutOnAdd THEN autoLayout(Append(nodes, newNode))
                            ELSE Append(nodes, newNode)
                /\ selectedId' = id
                /\ editingId' = id
                /\ editValue' = NewNode
    /\ nextUid' = nextUid + 1
    /\ last' = [op |-> "other"]
    /\ UNCHANGED <<mounted, categories, currentCatId, mapEditing, mapEditValue, call, ret,
                   dragRef, ioVars, catEditVars>>

\* lines 614-618
deleteNode ==
    /\ mounted
    /\ IF selectedNode = <<>>
       THEN UNCHANGED <<nodes, selectedId, editingId>>
       ELSE LET id == selectedNode[1].id
                toDelete == markLoop(nodes, {id}, 0).toDelete
            IN  /\ nodes' = filterSeq(nodes, { n \in Range(nodes) : n.id \notin toDelete })
                /\ selectedId' = NULL
                /\ editingId' = IF editingId # NULL /\ editingId \in toDelete THEN NULL
                                ELSE editingId
    /\ last' = [op |-> "deleteNode",
                hit |-> selectedNode # <<>>
                        /\ Cardinality(markLoop(nodes, {selectedNode[1].id}, 0).toDelete) > 1]
    /\ UNCHANGED <<mounted, categories, currentCatId, mapEditing, mapEditValue, nextUid,
                   call, ret, editValue, altFlipRef, dragRef, ioVars, catEditVars>>

\* onClick of a node, line 1010
selectNode ==
    /\ mounted
    /\ \E k \in 1..Len(nodes) : selectedId' = nodes[k].id
    /\ last' = [op |-> "other"]
    /\ UNCHANGED <<mounted, categories, currentCatId, nodes, mapEditing, mapEditValue,
                   nextUid, call, ret, canvasVars, ioVars, catEditVars>>

\* onDoubleClick of a node, line 1011
startEdit ==
    /\ mounted
    /\ \E k \in 1..Len(nodes) :
         /\ selectedId' = nodes[k].id
         /\ editingId' = nodes[k].id
         /\ editValue' = nodes[k].label
    /\ last' = [op |-> "other"]
    /\ UNCHANGED <<mounted, categories, currentCatId, nodes, mapEditing, mapEditValue,
                   nextUid, call, ret, altFlipRef, dragRef, ioVars, catEditVars>>

\* onChange of the rename input, line 1025; the input is shown while the
\* edited node exists (line 1017)
editChange ==
    /\ mounted /\ editingId # NULL /\ findNode(nodes, editingId) # <<>>
    /\ \E v \in LabelInputs : editValue' = v
    /\ last' = [op |-> "other"]
    /\ UNCHANGED <<mounted, categories, currentCatId, nodes, selectedId, mapEditing,
                   mapEditValue, nextUid, call, ret, editingId, altFlipRef, dragRef,
                   ioVars, catEditVars>>

\* line 776
commitEdit ==
    /\ mounted
    /\ IF editingId = NULL
       THEN UNCHANGED <<nodes, editingId>>
       ELSE /\ nodes' = renameNode(nodes, editingId, editValue)
            /\ editingId' = NULL
    /\ last' = [op |-> "other"]
    /\ UNCHANGED <<mounted, categories, currentCatId, selectedId, mapEditing,
                   mapEditValue, nextUid, call, ret, editValue, altFlipRef, dragRef,
                   ioVars, catEditVars>>

\* line 777
cancelEdit ==
    /\ mounted /\ editingId # NULL
    /\ editingId' = NULL
    /\ last' = [op |-> "other"]
    /\ UNCHANGED <<mounted, categories, currentCatId, nodes, selectedId, mapEditing,
                   mapEditValue, nextUid, call, ret, editValue, altFlipRef, dragRef,
                   ioVars, catEditVars>>

NoDrag == [type |-> "none", id |-> NULL, nodeStartX |-> 0, nodeStartY |-> 0]

\* lines 624-628, the pointer going down on the node itself (not on a plus
\* button): the pointer grabs the node at its centre
onNodePointerDown ==
    /\ mounted
    /\ \E k \in 1..Len(nodes) :
         IF editingId # NULL
         THEN UNCHANGED dragRef
         ELSE dragRef' = [type |-> "node", id |-> nodes[k].id,
                          nodeStartX |-> nodes[k].x, nodeStartY |-> nodes[k].y]
    /\ last' = [op |-> "other"]
    /\ UNCHANGED <<mounted, categories, currentCatId, nodes, selectedId, mapEditing,
                   mapEditValue, nextUid, call, ret, editingId, editValue, altFlipRef,
                   ioVars, catEditVars>>

\* lines 632-636: the pointer moves to a spot, dx and dy are the way from
\* where it went down
onPointerMove ==
    /\ mounted
    /\ \E spot \in Spots :
         IF dragRef.type = "node" /\ dragRef.id # NULL
         THEN LET dx == spot[1] - dragRef.nodeStartX
                  dy == spot[2] - dragRef.nodeStartY
              IN  nodes' = [k \in 1..Len(nodes) |->
                              IF nodes[k].id = dragRef.id
                              THEN [nodes[k] EXCEPT !.x = dragRef.nodeStartX + dx,
                                                    !.y = dragRef.nodeStartY + dy]
                              ELSE nodes[k]]
         ELSE UNCHANGED nodes
    /\ last' = [op |-> "other"]
    /\ UNCHANGED <<mounted, categories, currentCatId, selectedId, mapEditing,
                   mapEditValue, nextUid, call, ret, canvasVars, ioVars, catEditVars>>

\* line 638
onPointerUp ==
    /\ mounted /\ dragRef # NoDrag
    /\ dragRef' = NoDrag
    /\ last' = [op |-> "other"]
    /\ UNCHANGED <<mounted, categories, currentCatId, nodes, selectedId, mapEditing,
                   mapEditValue, nextUid, call, ret, editingId, editValue, altFlipRef,
                   ioVars, catEditVars>>

\* line 768
onAutoLayout ==
    /\ mounted
    /\ nodes' = autoLayout(nodes)
    /\ last' = [op |-> "other"]
    /\ UNCHANGED <<mounted, categories, currentCatId, selectedId, mapEditing,
                   mapEditValue, nextUid, call, ret, canvasVars, ioVars, catEditVars>>

InitCanvas == AppStart /\ NoStorage /\ call = [fn |-> "canvas"]

\* onNodePointerDown captures the pointer (line 626): until it is released
\* the pointer reaches no other handler, and no rename input has the keyboard
\* (a drag starts only while editingId is null)
PointerFree == dragRef = NoDrag

NextCanvas ==
    \/ PointerFree /\ MountEffect
    \/ PointerFree /\ addChild
    \/ PointerFree /\ addRoot
    \/ PointerFree /\ deleteNode
    \/ PointerFree /\ selectNode
    \/ PointerFree /\ startEdit
    \/ PointerFree /\ editChange
    \/ PointerFree /\ commitEdit
    \/ PointerFree /\ cancelEdit
    \/ PointerFree /\ onNodePointerDown
    \/ PointerFree /\ onAutoLayout
    \/ PointerFree /\ saveCurrentAsMap
    \/ PointerFree /\ createEmptyMapHere
    \/ PointerFree /\ loadMap
    \/ onPointerMove
    \/ onPointerUp

SpecCanvas == InitCanvas /\ [][NextCanvas]_vars

\* no two nodes of the list have the same id
uniqueIds(ns) == \A i, j \in 1..Len(ns) : i # j => ns[i].id # ns[j].id

\* every parentId is null or the id of a node of the list
noDangling(ns) == \A k \in 1..Len(ns) : ns[k].parentId \in nodeIds(ns) \cup {NULL}

\* following parent links from the node with id from, target is met within n steps
RECURSIVE climbs(_, _, _, _)
climbs(ns, from, target, n) ==
    IF n = 0 THEN FALSE
    ELSE \E k \in 1..Len(ns) :
            /\ ns[k].id = from
            /\ ns[k].parentId # NULL
            /\ (ns[k].parentId = target \/ climbs(ns, ns[k].parentId, target, n - 1))

\* C11: the canvas nodes form a forest: ids are unique, every parentId is null
\* or the id of a node on the canvas, and no node is its own ancestor
C11_Forest ==
    /\ uniqueIds(nodes)
    /\ noDangling(nodes)
    /\ \A k \in 1..Len(nodes) : ~climbs(nodes, nodes[k].id, nodes[k].id, Len(nodes))

\* deleteNode has removed the selected node together with its child
C11_Witness ==
    /\ last.op = "deleteNode" /\ last.hit
    /\ nextUid = MaxCanvasUids

-----------------------------------------------------------------------------
(* Files and localStorage: the handlers of part_000:703-735.                *)

\* lines 703-705
onExportJSON ==
    /\ mounted
    /\ downloaded' = << JsonText(JsonObject(<<stringifyNodes(nodes)>>, <<>>)) >>
    /\ last' = [op |-> "onExportJSON"]
    /\ UNCHANGED <<mounted, categories, currentCatId, nodes, selectedId, mapEditing,
                   mapEditValue, nextUid, call, ret, canvasVars, localStorage, flushed,
                   catEditVars>>

\* lines 712-724, the file read to its end: the file is the one the run was
\* given or the one onExportJSON wrote
onImportJSON ==
    /\ mounted
    /\ \E file \in {call.file} \cup Range(downloaded) :
         LET data == parsedNodeList(file)
         IN  /\ nodes' = IF data # <<>> THEN data[1] ELSE nodes
             /\ last' = [op |-> "onImportJSON", hit |-> data # <<>>, file |-> file]
    /\ UNCHANGED <<mounted, categories, currentCatId, selectedId, mapEditing,
                   mapEditValue, nextUid, call, ret, canvasVars, ioVars, catEditVars>>

\* line 726
onSaveLocal ==
    /\ mounted
    /\ localStorage' = [localStorage EXCEPT !.nodes = << JsonText(stringifyNodes(nodes)) >>]
    /\ last' = [op |-> "onSaveLocal"]
    /\ UNCHANGED <<mounted, categories, currentCatId, nodes, selectedId, mapEditing,
                   mapEditValue, nextUid, call, ret, canvasVars, downloaded, flushed,
                   catEditVars>>

\* lines 727-735
onLoadLocal ==
    /\ mounted
    /\ LET raw == localStorage.nodes
           data == IF raw = <<>> THEN <<>> ELSE parsedNodeList(raw[1])
       IN  /\ nodes' = IF data # <<>> THEN data[1] ELSE nodes
           /\ last' = [op |-> "onLoadLocal", hit |-> data # <<>>]
    /\ UNCHANGED <<mounted, categories, currentCatId, selectedId, mapEditing,
                   mapEditValue, nextUid, call, ret, canvasVars, ioVars, catEditVars>>

-----------------------------------------------------------------------------
(* The application with a file to import: the file holds a text that is not *)
(* JSON, a JSON value of another shape, or up to MaxFileNodes nodes with    *)
(* ids 1, 2, ... and any parents (none, any node of the file, or a node of  *)
(* no file), as a bare array or as { nodes: [...] }.  localStorage holds    *)
(* nothing or the same text under "mindmap.nodes".                          *)

FileLabel == <<"n">>

fileNode(k, parent, c) ==
    [id |-> k, label |-> FileLabel, x |-> IF k = 1 THEN c ELSE FromInt(k), y |-> 0,
     parentId |-> parent, color |-> "#ffffff",
     side |-> IF k = 1 THEN <<"left">> ELSE <<>>]

OtherShapes ==
    { Garbage, JsonText(JsonNull), JsonText(JsonScalar),
      JsonText(JsonObject(<<>>, <<>>)), JsonText(JsonObject(<<JsonScalar>>, <<>>)) }

\* the files of up to MaxFileNodes nodes: any parents, or only none and node 1
NodeFiles(anyParent, cs, shapes) ==
    UNION { UNION { { IF bare THEN JsonText(JsonArray([k \in 1..n |-> fileNode(k, ps[k], c)]))
                      ELSE JsonText(JsonObject(
                               <<JsonArray([k \in 1..n |-> fileNode(k, ps[k], c)])>>, <<>>)) :
                      bare \in shapes, c \in cs } :
                    ps \in [1..n -> IF anyParent THEN {NULL, DanglingId} \cup 1..n
                                    ELSE {NULL, 1}] } :
            n \in 0..MaxFileNodes }

\* a file with nodes in any parent relation is at hand, nothing is stored
InitDelete ==
    /\ AppStart /\ NoStorage
    /\ \E file \in NodeFiles(TRUE, {0}, {TRUE}) : call = [fn |-> "delete", file |-> file]

NextDelete ==
    \/ MountEffect
    \/ onImportJSON
    \/ selectNode
    \/ startEdit
    \/ deleteNode

SpecDelete == InitDelete /\ [][NextDelete]_vars

\* a file of any shape is at hand, and may be what is stored
InitIO ==
    /\ AppStart
    /\ \E file \in NodeFiles(FALSE, {0, Infinity}, BOOLEAN) \cup OtherShapes :
         /\ call = [fn |-> "io", file |-> file]
         /\ \E stored \in {<<>>, <<file>>} :
              localStorage = [categories |-> <<>>, nodes |-> stored]

NextIO ==
    \/ MountEffect
    \/ onImportJSON
    \/ onExportJSON
    \/ onSaveLocal
    \/ onLoadLocal

SpecIO == InitIO /\ [][NextIO]_vars

\* the ids met from the ids of R by going down the lists of byParent, after at
\* most n rounds
RECURSIVE below(_, _, _)
below(byParent, R, n) ==
    IF n = 0 THEN R
    ELSE below(byParent,
               R \cup UNION { { c.id : c \in Range(childrenOf(byParent, r)) } : r \in R },
               n - 1)

\* C12: deleteNode removes the nodes whose id is the selected id or has it
\* among its ancestors by parentId, which are the ids below the selected id in
\* byParent of buildChildrenMap; the other nodes stay in order and unchanged,
\* selectedId becomes null and editingId becomes null if it named a removed
\* node and stays otherwise; with no node selected nothing changes
C12_DeleteNode ==
    [][last'.op = "deleteNode" =>
         IF selectedNode = <<>>
         THEN UNCHANGED <<nodes, selectedId, editingId, editValue>>
         ELSE LET gone == reached(nodes, {selectedId}, Len(nodes))
              IN  /\ gone = below(buildChildrenMap(nodes).byParent, {selectedId}, Len(nodes))
                  /\ nodes' = SelectSeq(nodes, LAMBDA n : n.id \notin gone)
                  /\ selectedId' = NULL
                  /\ editingId' = (IF editingId \in gone THEN NULL ELSE editingId)
                  /\ editValue' = editValue]_vars

\* deleteNode has removed a node with descendants from an imported list, which
\* took the node in the rename input with it, and a node is left
C12_Witness ==
    /\ call.fn = "delete"
    /\ last.op = "deleteNode" /\ last.hit
    /\ nodes # <<>>
    /\ editingId = NULL /\ editValue = FileLabel

-----------------------------------------------------------------------------
(* The node-list functions on every input: node lists as in InitLayout      *)
(* (unique ids, parents none, dangling, or any node, so chains in any list  *)
(* order and cycles occur).                                                 *)

\* written into the record of calls when place is entered deeper than the list
\* is long
Overrun == NULL - 1

\* the ids place is called with, in call order, when place(n, depth) is entered
\* with `fuel` levels left (lines 133-150: one call per child of ch.map)
RECURSIVE placeCalls(_, _, _)
RECURSIVE placeCallsAll(_, _, _)
placeCallsAll(byParent, ch, fuel) ==
    IF ch = <<>> THEN <<>>
    ELSE placeCalls(byParent, Head(ch), fuel) \o placeCallsAll(byParent, Tail(ch), fuel)

placeCalls(byParent, n, fuel) ==
    IF fuel = 0 THEN <<Overrun>>
    ELSE <<n.id>> \o placeCallsAll(byParent, childrenOf(byParent, n.id), fuel - 1)

\* roots.forEach((r) => place(r, 0)), line 152: the calls of place it makes
\* and the ids of the nodes whose x and y it has assigned
placeRootsCalls(ns) ==
    LET m == buildChildrenMap(ns)
    IN  [calls |-> placeCallsAll(m.byParent, m.roots, Len(ns) + 1),
         assigned |-> DOMAIN placeRoots(m.byParent, m.roots,
                                        [cursorX |-> 0, pos |-> <<>>]).pos]

\* the texts renameNode is called with
NewLabels == { <<>>, <<SP>>, <<SP, "N", "e", "w", SP>>, <<"a", SP, "b">> }

InitNodes ==
    /\ \/ \E n \in 0..MaxNodes, f \in {"markLoop", "place"} :
            \E ps \in [1..n -> {NULL, DanglingId} \cup 1..n] :
               call = [fn |-> f, nodes |-> [k \in 1..n |-> inputNode(k, ps[k], 1)]]
       \/ \E n \in 0..MaxNodes, newLabel \in NewLabels :
            \E id \in 1..n \cup {DanglingId} :
               call = [fn |-> "renameNode",
                       nodes |-> [k \in 1..n |-> inputNode(k, IF k = 1 THEN NULL ELSE k - 1, 1)],
                       id |-> id, newLabel |-> newLabel]
    /\ ret = <<>>
    /\ AppIdle

\* deleteNode's loop for a selected node of the list
CallMarkLoop ==
    /\ call.fn = "markLoop" /\ ret = <<>>
    /\ \E k \in 1..Len(call.nodes) : ret' = <<markLoop(call.nodes, {call.nodes[k].id}, 0)>>
    /\ UNCHANGED <<call, appVars>>

CallPlaceRoots ==
    /\ call.fn = "place" /\ ret = <<>>
    /\ ret' = <<placeRootsCalls(call.nodes)>>
    /\ UNCHANGED <<call, appVars>>

CallRenameNode ==
    /\ call.fn = "renameNode" /\ ret = <<>>
    /\ ret' = <<renameNode(call.nodes, call.id, call.newLabel)>>
    /\ UNCHANGED <<call, appVars>>

NextNodes == CallMarkLoop \/ CallPlaceRoots \/ CallRenameNode

SpecNodes == InitNodes /\ [][NextNodes]_vars

\* the position of the first occurrence of each element is its only one
noRepeat(q) == \A i, j \in 1..Len(q) : q[i] = q[j] => i = j

\* the ids of the roots of buildChildrenMap: parentId null or of no node
rootIds(ns) == { ns[k].id : k \in { j \in 1..Len(ns) : isRootOf(ns, ns[j]) } }

\* C13: on every node list with unique ids, whatever its parent links,
\* deleteNode's loop stops after at most Len + 1 passes, and autoLayout's place
\* is called at most once per node, never deeper than the list is long, for
\* exactly the nodes that hang below a root: a node on or below a parent cycle
\* is not placed
C13_Terminates ==
    /\ (call.fn = "markLoop" /\ ret # <<>>) =>
          ret[1].passes <= Len(call.nodes) + 1
    /\ (call.fn = "place" /\ ret # <<>>) =>
          /\ noRepeat(ret[1].calls)
          /\ Overrun \notin Range(ret[1].calls)
          /\ Range(ret[1].calls) = reached(call.nodes, rootIds(call.nodes), Len(call.nodes))
          /\ ret[1].assigned = Range(ret[1].calls)

\* place has run on a list of MaxNodes nodes of which three form a parent
\* cycle and one is a root: the root alone has been placed
C13_Witness ==
    /\ call.fn = "place" /\ ret # <<>>
    /\ Len(call.nodes) = MaxNodes
    /\ ~isForest(call.nodes)
    /\ Len(ret[1].calls) = 1
    /\ \E k \in 1..Len(call.nodes) : climbs(call.nodes, call.nodes[k].id, call.nodes[k].id, 3)
                                     /\ ~climbs(call.nodes, call.nodes[k].id, call.nodes[k].id, 2)

\* the text between the first and the last character that is no white space
refTrim(s) ==
    LET ks == { k \in 1..Len(s) : ~IsSpace(s[k]) }
    IN  IF ks = {} THEN <<>>
        ELSE SubSeq(s, CHOOSE k \in ks : \A j \in ks : k <= j,
                       CHOOSE k \in ks : \A j \in ks : k >= j)

\* C14: renameNode returns a list of the same length in which node k is node k
\* of the input, except that a node with the given id has the trimmed new
\* label, or "(empty)" when nothing is left after trimming; with no node of
\* that id the result is the input
C14_RenameNode ==
    (call.fn = "renameNode" /\ ret # <<>>) =>
        LET ns == call.nodes
            out == ret[1]
            t == refTrim(call.newLabel)
        IN  /\ Len(out) = Len(ns)
            /\ \A k \in 1..Len(ns) :
                  /\ out[k].id = ns[k].id /\ out[k].x = ns[k].x /\ out[k].y = ns[k].y
                  /\ out[k].parentId = ns[k].parentId /\ out[k].color = ns[k].color
                  /\ out[k].side = ns[k].side
                  /\ DOMAIN out[k] = DOMAIN ns[k]
                  /\ out[k].label = IF ns[k].id # call.id THEN ns[k].label
                                    ELSE IF t = <<>> THEN <<"(", "e", "m", "p", "t", "y", ")">>
                                    ELSE t
            /\ (call.id \notin nodeIds(ns)) => out = ns

\* renameNode has been given " New " for the second of several nodes
C14_Witness ==
    /\ call.fn = "renameNode" /\ ret # <<>>
    /\ Len(call.nodes) = MaxNodes /\ call.id = 2
    /\ call.newLabel = <<SP, "N", "e", "w", SP>>
    /\ ret[1][2].label = <<"N", "e", "w">>

-----------------------------------------------------------------------------
(* The category functions on every small tree: up to MaxCats categories,   *)
(* category k nested in any earlier category or in none, with ids that may *)
(* repeat.  A category carries ref, the identity of the object: k for the  *)
(* k-th object of the input, Fresh for an object the call has allocated.   *)

MaxCats == 3

\* the identity of an object allocated by the call under test
Fresh == 0

\* the categories nested in parent (0: the top level), in the order given
RECURSIVE forest(_, _, _, _)
forest(parents, ids, parent, from) ==
    IF from > Len(parents) THEN <<>>
    ELSE IF parents[from] # parent THEN forest(parents, ids, parent, from + 1)
    ELSE << [ref |-> from, id |-> ids[from], name |-> <<"C">>,
             maps |-> mapsFor(from, << <<"X">> >>),
             children |-> forest(parents, ids, from, from + 1)] >>
         \o forest(parents, ids, parent, from + 1)

\* an id of no category
AbsentCat == MaxCats + 1

\* lines 212-217 with the objects they allocate: { ...c, children: ... } is a
\* new object for every category the map visits, and so is the copy handed to
\* updater and the { ...c, ... } it returns; the elements of the copied
\* children array of the match are the input's objects
RECURSIVE updateCategoryObjects(_, _, _)
updateCategoryObjects(list, id, u) ==
    [k \in 1..Len(list) |->
        IF list[k].id = id THEN applyUpdater(u, [list[k] EXCEPT !.ref = Fresh])
        ELSE [list[k] EXCEPT !.ref = Fresh,
                             !.children = updateCategoryObjects(list[k].children, id, u)]]

\* variant of collectCategoryIds that lists a category after its children
RECURSIVE collectCategoryIds_postOrder(_)
collectCategoryIds_postOrder(list) ==
    IF list = <<>> THEN <<>>
    ELSE collectCategoryIds_postOrder(Head(list).children) \o <<Head(list).id>>
         \o collectCategoryIds_postOrder(Tail(list))

\* lines 271-276
RECURSIVE collectCategoryIds(_)
collectCategoryIds(list) ==
    IF list = <<>> THEN <<>>
    ELSE <<Head(list).id>> \o collectCategoryIds(Head(list).children)
         \o collectCategoryIds(Tail(list))

\* what an element of a stored array can be: null, a number or string, {},
\* an object whose four keys hold falsy or ill-typed values, a category
ElementKinds == {"null", "scalar", "bare", "falsy", "full"}

\* the elements nested in parent (0: the top level) of a stored text
RECURSIVE jsonForest(_, _, _, _)
jsonForest(parents, kinds, parent, from) ==
    IF from > Len(parents) THEN <<>>
    ELSE IF parents[from] # parent THEN jsonForest(parents, kinds, parent, from + 1)
    ELSE LET kids == jsonForest(parents, kinds, from, from + 1)
             c == CASE kinds[from] = "null"   -> JsonNull
                    [] kinds[from] = "scalar" -> JsonScalar
                    [] kinds[from] = "bare"   -> JsonCategory(<<>>, <<>>, <<>>, <<>>)
                    [] kinds[from] = "falsy"  ->
                          JsonCategory(<<FalsyId>>, << <<>> >>, <<JsonScalar>>,
                                       IF kids = <<>> THEN <<JsonNull>>
                                       ELSE <<JsonArray(kids)>>)
                    [] kinds[from] = "full"   ->
                          JsonCategory(<<from>>, << <<"C">> >>,
                                       <<JsonArray(<<stringifyDoc(
                                             mapsFor(from, << <<"X">> >>)[1])>>)>>,
                                       <<JsonArray(kids)>>)
         IN  <<c>> \o jsonForest(parents, kinds, parent, from + 1)

\* stored texts that hold no array of categories
OtherRaws ==
    { <<>>, <<Garbage>>, <<JsonText(JsonNull)>>, <<JsonText(JsonScalar)>>,
      <<JsonText(JsonObject(<<>>, <<>>))>>,
      <<JsonText(JsonObject(<<JsonArray(<<>>)>>, <<JsonScalar>>))>> }

InitCats ==
    /\ \E n \in 0..MaxCats :
         \E parents \in { p \in [1..n -> 0..n] : \A k \in 1..n : p[k] < k } :
            \/ \E ids \in [1..n -> 1..n] :
                  LET tree == forest(parents, ids, 0, 1)
                  IN  \/ \E id \in 1..n \cup {AbsentCat} :
                            \/ call = [fn |-> "updateCategory", tree |-> tree, id |-> id,
                                       u |-> [kind |-> "rename", name |-> <<"Z">>]]
                            \/ call = [fn |-> "findCategoryById", tree |-> tree, id |-> id]
                      \/ call = [fn |-> "collectCategoryIds", tree |-> tree]
            \/ \E kinds \in [1..n -> ElementKinds] :
                  LET arr == JsonArray(jsonForest(parents, kinds, 0, 1))
                  IN  \E raw \in { <<JsonText(arr)>>, <<JsonText(JsonObject(<<>>, <<arr>>))>> }
                                 \cup OtherRaws :
                         call = [fn |-> "safeParseCategories", raw |-> raw]
    /\ ret = <<>>
    /\ AppIdle

CallUpdateCategory ==
    /\ call.fn = "updateCategory" /\ ret = <<>>
    /\ ret' = <<updateCategoryObjects(call.tree, call.id, call.u)>>
    /\ UNCHANGED <<call, appVars>>

CallFindCategoryById ==
    /\ call.fn = "findCategoryById" /\ ret = <<>>
    /\ ret' = <<findCategoryById(call.tree, call.id)>>
    /\ UNCHANGED <<call, appVars>>

CallCollectCategoryIds ==
    /\ call.fn = "collectCategoryIds" /\ ret = <<>>
    /\ ret' = <<collectCategoryIds(call.tree)>>
    /\ UNCHANGED <<call, appVars>>

\* uid() returns ids above those of the stored text
CallSafeParseCategories ==
    /\ call.fn = "safeParseCategories" /\ ret = <<>>
    /\ ret' = <<safeParseCategories(call.raw, MaxCats).cats>>
    /\ UNCHANGED <<call, appVars>>

NextCats ==
    \/ CallUpdateCategory
    \/ CallFindCategoryById
    \/ CallCollectCategoryIds
    \/ CallSafeParseCategories

SpecCats == InitCats /\ [][NextCats]_vars

\* the category is the match or has the match below it
onPath(c, id) == c.id = id \/ hasCat(c.children, id)

\* C15 as stated: updateCategory hands every category that is not on the path
\* to the match back as the input's object, and allocates new objects only for
\* the categories on the path
C15_OffPathShared ==
    (call.fn = "updateCategory" /\ ret # <<>>) =>
        \A c \in catsOf(ret[1]) : c.ref = Fresh => onPath(c, call.id)

\* the updaters updateCategory is called with
AbsentUpdaters ==
    { [kind |-> "deleteMap", mapId |-> 1],
      [kind |-> "rename", name |-> <<"Z">>],
      [kind |-> "addChild",
       child |-> [id |-> AbsentId + 1, name |-> <<"Z">>, maps |-> <<>>, children |-> <<>>]] }

\* and the map ids and names of the other helpers
AbsentMapIds == {1, AbsentId}
AbsentNames == { <<>>, <<"X">>, Untitled }

\* none of the tree helpers finds or changes anything for a category id that
\* is in no category of the tree
absentNoOp(tree, id) ==
    /\ findCategoryById(tree, id) = <<>>
    /\ \A u \in AbsentUpdaters : updateCategory(tree, id, u) = tree
    /\ \A mapId \in AbsentMapIds : deleteMapFromTree(tree, id, mapId) = tree
    /\ \A name \in AbsentNames :
          /\ upsertMapInCategories(tree, id, [id |-> AbsentId + 1, name |-> name,
                                              nodes |-> INITIAL_NODES, updatedAt |-> 7]) = tree
          /\ addSubCategory(tree, id, name, AbsentId + 1) = tree
          /\ renameCategoryTree(tree, id, name) = tree
          /\ \A mapId \in AbsentMapIds : renameMapInTree(tree, id, mapId, name, 7) = tree

\* C16: for a category id that matches no category, findCategoryById returns
\* null and updateCategory, upsertMapInCategories, deleteMapFromTree,
\* addSubCategory, renameCategoryTree and renameMapInTree return the tree they
\* were given; createEmptyMapHere and loadMap with such an id leave nodes,
\* selection and categories as they were
C16_AbsentId ==
    [][ (last'.op \in {"noCategory", "loadMapNoCategory"}) =>
            /\ absentNoOp(categories, AbsentId)
            /\ UNCHANGED <<nodes, selectedId, categories, currentCatId>> ]_vars

\* loadMap has returned early for an id of no category while the tree holds a
\* nested category and a saved map
C16_Witness ==
    /\ last.op = "loadMapNoCategory"
    /\ \E c \in catsOf(categories) : c.children # <<>>
    /\ \E c \in catsOf(categories) : c.maps # <<>>

\* the array of categories of a stored text, <<>> when it holds none
categoryArray(raw) ==
    IF raw = <<>> \/ raw[1].t # "json" THEN <<>>
    ELSE IF raw[1].v.t = "arr" THEN <<raw[1].v>>
    ELSE IF raw[1].v.t = "obj" /\ raw[1].v.categories # <<>>
            /\ raw[1].v.categories[1].t = "arr"
         THEN raw[1].v.categories
         ELSE <<>>

\* the elements of the children array of an element, <<>> when it has none
childItems(c) ==
    IF c.t = "cat" /\ c.children # <<>> /\ c.children[1].t = "arr"
    THEN c.children[1].items ELSE <<>>

\* a null is among the elements, at any depth of the children arrays
RECURSIVE holdsNull(_)
holdsNull(items) ==
    \E k \in 1..Len(items) : items[k].t = "null" \/ holdsNull(childItems(items[k]))

\* cats has one category per element, in order, each with a non-empty id (the
\* element's, if it has one), a name (the element's, if it has one), a maps
\* sequence (as long as the element's, if it has one) and children that are the
\* same of the element's children
RECURSIVE normalised(_, _)
normalised(cats, items) ==
    /\ Len(cats) = Len(items)
    /\ \A k \in 1..Len(items) :
          LET c == items[k]
              o == cats[k]
          IN  /\ DOMAIN o = {"id", "name", "maps", "children"}
              /\ o.id # FalsyId
              /\ (c.t = "cat" /\ c.id # <<>> /\ c.id[1] # FalsyId) => o.id = c.id[1]
              /\ o.name # <<>>
              /\ (c.t = "cat" /\ c.name # <<>> /\ c.name[1] # <<>>) => o.name = c.name[1]
              /\ DOMAIN o.maps = 1..Len(o.maps)
              /\ (c.t = "cat" /\ c.maps # <<>> /\ c.maps[1].t = "arr") =>
                     Len(o.maps) = Len(c.maps[1].items)
              /\ DOMAIN o.children = 1..Len(o.children)
              /\ normalised(o.children, childItems(c))

\* C17 as stated: safeParseCategories returns the empty sequence for null,
\* text that is not JSON and JSON that holds no array of categories, and for an
\* array one normalised category per element
C17_AsStated ==
    (call.fn = "safeParseCategories" /\ ret # <<>>) =>
        LET arr == categoryArray(call.raw)
        IN  IF arr = <<>> THEN ret[1] = <<>> ELSE normalised(ret[1], arr[1].items)

\* C17: safeParseCategories returns the empty sequence for null, text that is
\* not JSON and JSON that holds no array of categories; for an array it returns
\* one normalised category per element, unless an element of the array or of a
\* children array nested in it is null: then it returns the empty sequence
C17_SafeParse ==
    (call.fn = "safeParseCategories" /\ ret # <<>>) =>
        LET arr == categoryArray(call.raw)
        IN  IF arr = <<>> THEN ret[1] = <<>>
            ELSE IF holdsNull(arr[1].items) THEN ret[1] = <<>>
            ELSE normalised(ret[1], arr[1].items)

\* a stored array has been read whose elements are a category with a child
\* and elements that lack id and name
C17_Witness ==
    /\ call.fn = "safeParseCategories" /\ ret # <<>>
    /\ Len(ret[1]) = MaxCats - 1
    /\ \E k \in 1..Len(ret[1]) : ret[1][k].children # <<>> /\ ret[1][k].maps # <<>>
    /\ \E k \in 1..Len(ret[1]) : ret[1][k].name = Category /\ ret[1][k].id > MaxCats

\* what import and local load make of a text: the nodes of a bare array, the
\* nodes of the array under the key nodes, and the current list for text that
\* is not JSON or JSON of another shape
afterReading(text, current) ==
    CASE text.t = "garbage" -> current
      [] text.t = "json" /\ text.v.t = "arr" -> parseNodes(text.v)
      [] text.t = "json" /\ text.v.t = "obj" /\ text.v.nodes # <<>>
           /\ text.v.nodes[1].t = "arr" -> parseNodes(text.v.nodes[1])
      [] OTHER -> current

\* every coordinate of the list is a finite number
finiteCoordinates(ns) == \A k \in 1..Len(ns) : ns[k].x # Infinity /\ ns[k].y # Infinity

\* import and local load replace the node list by the array read, or leave it
readsArrayOrNothing ==
    /\ last'.op = "onImportJSON" => nodes' = afterReading(last'.file, nodes)
    /\ last'.op = "onLoadLocal" =>
          nodes' = IF localStorage.nodes = <<>> THEN nodes
                   ELSE afterReading(localStorage.nodes[1], nodes)

\* C18 as stated: import and local load replace the node list by the array
\* read, or leave it for any other text; what onExportJSON and onSaveLocal
\* write reads back as exactly the node list written
C18_AsStated ==
    [][ /\ readsArrayOrNothing
        /\ last'.op = "onExportJSON" => afterReading(downloaded'[1], <<>>) = nodes
        /\ last'.op = "onSaveLocal" => afterReading(localStorage'.nodes[1], <<>>) = nodes ]_vars

\* C18: import and local load replace the node list by the array read, or
\* leave it for any other text; what onExportJSON and onSaveLocal write reads
\* back as exactly the node list written when its coordinates are finite
C18_ImportLoad ==
    [][ /\ readsArrayOrNothing
        /\ (last'.op = "onExportJSON" /\ finiteCoordinates(nodes)) =>
              afterReading(downloaded'[1], <<>>) = nodes
        /\ (last'.op = "onSaveLocal" /\ finiteCoordinates(nodes)) =>
              afterReading(localStorage'.nodes[1], <<>>) = nodes ]_vars

\* the file onExportJSON wrote has been imported and has brought back a list
\* of MaxFileNodes nodes, one of them without the key side
C18_Witness ==
    /\ call.fn = "io"
    /\ last.op = "onImportJSON" /\ last.hit
    /\ downloaded # <<>> /\ last.file = downloaded[1] /\ last.file # call.file
    /\ Len(nodes) = MaxFileNodes
    /\ nodes[2].side = "unset"
    /\ localStorage.nodes # <<>> /\ afterReading(localStorage.nodes[1], <<>>) = INITIAL_NODES

-----------------------------------------------------------------------------
(* Persistence of the category tree, part_000:484-496: the application with *)
(* its effects, started with nothing, with text that is not JSON or with an *)
(* array holding null under CKEY, and loaded again at any time at which no  *)
(* effect is pending.  The file at hand holds one node, whose x may be      *)
(* 1e999.                                                                   *)

InitPersist ==
    /\ AppStart
    /\ \E c \in {0, Infinity} :
         call = [fn |-> "persist", file |-> JsonText(JsonArray(<<fileNode(1, NULL, c)>>))]
    /\ \E stored \in { <<>>, <<Garbage>>, <<JsonText(JsonArray(<<JsonNull>>))>> } :
         localStorage = [categories |-> stored, nodes |-> <<>>]

NextPersist ==
    \/ MountEffect
    \/ PersistEffect
    \/ Reload
    \/ EffectsDone /\ createCategory
    \/ EffectsDone /\ createSubCategory
    \/ EffectsDone /\ saveCurrentAsMap
    \/ EffectsDone /\ deleteMap
    \/ EffectsDone /\ onImportJSON

SpecPersist == InitPersist /\ [][NextPersist]_vars

\* every node saved in a map of the tree has finite coordinates
RECURSIVE finiteMaps(_)
finiteMaps(list) ==
    \A k \in 1..Len(list) :
        /\ \A i \in 1..Len(list[k].maps) : finiteCoordinates(list[k].maps[i].nodes)
        /\ finiteMaps(list[k].children)

\* what is stored under CKEY reads as the tree in memory
storedIsCurrent ==
    safeParseCategories(localStorage.categories, nextUid).cats = categories

RECURSIVE preOrder(_)
preOrder(list) ==
    IF list = <<>> THEN <<>>
    ELSE <<Head(list)>> \o preOrder(Head(list).children) \o preOrder(Tail(list))

\* C20: collectCategoryIds lists the id of every category once per category in
\* pre-order, and findCategoryById returns the category at the first position
\* of the id in that list, or null exactly when the id is not in it
C20_PreOrder ==
    /\ (call.fn = "collectCategoryIds" /\ ret # <<>>) =>
          LET cats == preOrder(call.tree)
          IN  /\ Len(ret[1]) = Len(cats)
              /\ \A k \in 1..Len(cats) : ret[1][k] = cats[k].id
              /\ { cats[k].ref : k \in 1..Len(cats) } = 1..Len(cats)
    /\ (call.fn = "findCategoryById" /\ ret # <<>>) =>
          LET cats == preOrder(call.tree)
              at == { k \in 1..Len(cats) : cats[k].id = call.id }
          IN  IF at = {} THEN ret[1] = <<>>
              ELSE ret[1] = << cats[CHOOSE k \in at : \A j \in at : k <= j] >>

\* findCategoryById has returned a nested category whose id a later top-level
\* category has as well
C20_Witness ==
    /\ call.fn = "findCategoryById" /\ ret # <<>> /\ ret[1] # <<>>
    /\ Len(call.tree) = 2
    /\ call.tree[2].id = call.id
    /\ ret[1][1].ref # call.tree[2].ref
    /\ ret[1][1] \in Range(call.tree[1].children)

-----------------------------------------------------------------------------
(* addSubCategory and deleteMapFromTree on every small tree, as in         *)
(* InitCats, with the map ids MapIdLists in every category: a map is told  *)
(* apart by updatedAt, which is 10 * (the category's ref) + its position.  *)

MapIdLists == { <<>>, <<1>>, <<2, 1>>, <<1, 2, 1>> }

\* the tree with maps of the ids mids in every category
RECURSIVE withMapIds(_, _)
withMapIds(list, mids) ==
    [k \in 1..Len(list) |->
        [list[k] EXCEPT
            !.maps = [i \in 1..Len(mids) |->
                        [id |-> mids[i], name |-> <<"X">>, nodes |-> <<>>,
                         updatedAt |-> 10 * list[k].ref + i]],
            !.children = withMapIds(list[k].children, mids)]]

InitCatEdit ==
    /\ \E n \in 0..MaxCats :
         \E parents \in { p \in [1..n -> 0..n] : \A k \in 1..n : p[k] < k },
            ids \in [1..n -> 1..n], id \in 1..n \cup {AbsentCat} :
            \/ \E name \in { <<>>, <<"S">> } :
                  call = [fn |-> "addSubCategory", tree |-> forest(parents, ids, 0, 1),
                          parentId |-> id, name |-> name]
            \/ \E mids \in MapIdLists, mapId \in {1, 2} :
                  call = [fn |-> "deleteMapFromTree",
                          tree |-> withMapIds(forest(parents, ids, 0, 1), mids),
                          catId |-> id, mapId |-> mapId]
    /\ ret = <<>>
    /\ AppIdle

\* uid() returns an id of no category of the tree
CallAddSubCategory ==
    /\ call.fn = "addSubCategory" /\ ret = <<>>
    /\ ret' = <<addSubCategory(call.tree, call.parentId, call.name, AbsentCat + 1)>>
    /\ UNCHANGED <<call, appVars>>

CallDeleteMapFromTree ==
    /\ call.fn = "deleteMapFromTree" /\ ret = <<>>
    /\ ret' = <<deleteMapFromTree(call.tree, call.catId, call.mapId)>>
    /\ UNCHANGED <<call, appVars>>

NextCatEdit == CallAddSubCategory \/ CallDeleteMapFromTree

SpecCatEdit == InitCatEdit /\ [][NextCatEdit]_vars

\* no two categories of the tree have the same id
uniqueCatIds(list) == \A k, j \in 1..Len(preOrder(list)) :
                          preOrder(list)[k].id = preOrder(list)[j].id => k = j

\* the maps of a tree, category by category in pre-order
mapsInOrder(list) == [k \in 1..Len(preOrder(list)) |-> preOrder(list)[k].maps]

\* new is old with one category appended to the children of the category
\* parentId, every other category in its place
RECURSIVE grownBy(_, _, _, _)
grownBy(old, new, parentId, child) ==
    /\ Len(new) = Len(old)
    /\ \A k \in 1..Len(old) :
          /\ new[k].id = old[k].id /\ new[k].name = old[k].name /\ new[k].maps = old[k].maps
          /\ IF old[k].id = parentId
             THEN new[k].children = old[k].children \o <<child>>
             ELSE grownBy(old[k].children, new[k].children, parentId, child)

\* C21: with parentId present and category ids unique, addSubCategory appends
\* one category with the given name, no maps and no children as the last child
\* of parentId; the parent's earlier children keep their order, the tree has
\* one category more and every map is as before
C21_AddSubCategory ==
    (call.fn = "addSubCategory" /\ ret # <<>> /\ uniqueCatIds(call.tree)
       /\ hasCat(call.tree, call.parentId)) =>
        LET child == [id |-> AbsentCat + 1, name |-> call.name, maps |-> <<>>,
                      children |-> <<>>]
            parent == catById(ret[1], call.parentId)
        IN  /\ grownBy(call.tree, ret[1], call.parentId, child)
            /\ parent.children[Len(parent.children)] = child
            /\ Len(preOrder(ret[1])) = Len(preOrder(call.tree)) + 1
            /\ SelectSeq(mapsInOrder(ret[1]), LAMBDA m : m # <<>>) = mapsInOrder(call.tree)

\* a sub-category has been added to a nested category that had a child
C21_Witness ==
    /\ call.fn = "addSubCategory" /\ ret # <<>> /\ uniqueCatIds(call.tree)
    /\ Len(call.tree) = 1 /\ Len(call.tree[1].children) = 1
    /\ call.tree[1].children[1].id = call.parentId
    /\ Len(ret[1][1].children[1].children) = 2
    /\ ret[1][1].children[1].children[2].name = <<"S">>

\* the maps of a list whose id is not mapId, in the list's order
keptMaps(maps, mapId) == SelectSeq(maps, LAMBDA m : m.id # mapId)

\* new is old with the maps of id mapId taken out of every category catId,
\* wherever it is, and nothing else changed
RECURSIVE deletedEverywhere(_, _, _, _)
deletedEverywhere(old, new, catId, mapId) ==
    /\ Len(new) = Len(old)
    /\ \A k \in 1..Len(old) :
          /\ new[k].id = old[k].id /\ new[k].name = old[k].name
          /\ new[k].maps = IF old[k].id = catId THEN keptMaps(old[k].maps, mapId)
                           ELSE old[k].maps
          /\ deletedEverywhere(old[k].children, new[k].children, catId, mapId)

\* new is old with the maps of id mapId taken out of every category catId
\* that is not below another category catId, and nothing else changed
RECURSIVE deletedOutermost(_, _, _, _)
deletedOutermost(old, new, catId, mapId) ==
    /\ Len(new) = Len(old)
    /\ \A k \in 1..Len(old) :
          /\ new[k].id = old[k].id /\ new[k].name = old[k].name
          /\ IF old[k].id = catId
             THEN /\ new[k].maps = keptMaps(old[k].maps, mapId)
                  /\ new[k].children = old[k].children
             ELSE /\ new[k].maps = old[k].maps
                  /\ deletedOutermost(old[k].children, new[k].children, catId, mapId)

\* C22 as stated: deleteMapFromTree removes from category catId exactly the
\* maps of id mapId, keeps its other maps in order, and leaves every other
\* category's maps, all names and the structure unchanged
C22_AsStated ==
    (call.fn = "deleteMapFromTree" /\ ret # <<>>) =>
        deletedEverywhere(call.tree, ret[1], call.catId, call.mapId)

\* C22: deleteMapFromTree removes exactly the maps of id mapId from every
\* category catId that is not below another category catId, keeps the other
\* maps of those categories in order, and leaves every other category's maps,
\* all names and the structure unchanged
C22_DeleteMap ==
    (call.fn = "deleteMapFromTree" /\ ret # <<>>) =>
        deletedOutermost(call.tree, ret[1], call.catId, call.mapId)

\* two maps of the id have been removed from a nested category that keeps a
\* third map, in a tree of unique ids
C22_Witness ==
    /\ call.fn = "deleteMapFromTree" /\ ret # <<>> /\ uniqueCatIds(call.tree)
    /\ Len(call.tree) = 1 /\ Len(call.tree[1].children) = 1
    /\ call.tree[1].children[1].id = call.catId
    /\ Len(call.tree[1].children[1].maps) = 3 /\ call.mapId = 1
    /\ Len(ret[1][1].children[1].maps) = 1
    /\ ret[1][1].children[1].maps[1].id = 2
    /\ Len(ret[1][1].maps) = 3

-----------------------------------------------------------------------------
\* the roots in the order autoLayout visits them
rootsInOrder(ns) ==
    SelectSeq(ns, LAMBDA n : n.parentId = NULL)
    \o SelectSeq(ns, LAMBDA n : n.parentId # NULL /\ n.parentId \notin nodeIds(ns))

yOf(out, id) == out[CHOOSE k \in 1..Len(out) : out[k].id = id].y

\* C23: on a forest with unique ids, in the output of autoLayout every child
\* is V below its parent and no node is above a root; an internal node's x is
\* half the sum of the smallest and the largest x of its direct children; each
\* leaf, in depth-first order over all the roots, is H to the right of the
\* leaf before it
C23_Placement ==
    (call.fn = "autoLayout" /\ Len(ret) >= 1 /\ isForest(call.nodes)) =>
        LET ns == call.nodes
            out == ret[1]
            leaves == leavesBelow(ns, rootsInOrder(ns))
        IN  /\ \A k \in 1..Len(ns) :
                 LET kids == kidsOf(ns, ns[k].id)
                     xs == [i \in 1..Len(kids) |-> xOf(out, kids[i].id)]
                 IN  /\ ~isRootOf(ns, ns[k]) => out[k].y = yOf(out, ns[k].parentId) + FromInt(V)
                     /\ isRootOf(ns, ns[k]) => \A j \in 1..Len(ns) : out[k].y <= out[j].y
                     /\ kids # <<>> =>
                           \E lo, hi \in Range(xs) :
                               /\ \A x \in Range(xs) : lo <= x /\ x <= hi
                               /\ 2 * out[k].x = lo + hi
            /\ \A i \in 2..Len(leaves) :
                 xOf(out, leaves[i]) = xOf(out, leaves[i - 1]) + FromInt(H)

\* two trees were laid out: the first root has two leaves and lies midway
\* between them, the second root is a leaf at the third slot
C23_Witness ==
    /\ call.fn = "autoLayout" /\ Len(ret) >= 1 /\ Len(call.nodes) = 4
    /\ isForest(call.nodes)
    /\ call.nodes[1].parentId = NULL /\ call.nodes[2].parentId = 1
    /\ call.nodes[3].parentId = 1 /\ call.nodes[4].parentId = NULL
    /\ ret[1][3].x = ret[1][2].x + FromInt(H)
    /\ ret[1][4].x = ret[1][3].x + FromInt(H)
    /\ 2 * ret[1][1].x = ret[1][2].x + ret[1][3].x
    /\ ret[1][2].y = ret[1][1].y + FromInt(V)
    /\ ret[1][4].y = ret[1][1].y

NODE_W == 100

\* the distance of two coordinates
dist(a, b) == IF a >= b THEN a - b ELSE b - a

\* C24: on a forest with unique ids, in the output of autoLayout no two nodes
\* have the same position, and two nodes of the same y are at least H apart
\* in x, which is more than the width of a node
C24_NoOverlap ==
    (call.fn = "autoLayout" /\ Len(ret) >= 1 /\ isForest(call.nodes)) =>
        /\ \A i, j \in 1..Len(ret[1]) :
             i # j =>
               /\ <<ret[1][i].x, ret[1][i].y>> # <<ret[1][j].x, ret[1][j].y>>
               /\ ret[1][i].y = ret[1][j].y =>
                     dist(ret[1][i].x, ret[1][j].x) >= FromInt(H)
        /\ H > NODE_W

\* two roots with one child each were laid out: two levels of two nodes,
\* exactly H apart on each level
C24_Witness ==
    /\ call.fn = "autoLayout" /\ Len(ret) >= 1 /\ Len(call.nodes) = 4
    /\ isForest(call.nodes)
    /\ call.nodes[1].parentId = NULL /\ call.nodes[2].parentId = DanglingId
    /\ call.nodes[3].parentId = 2 /\ call.nodes[4].parentId = 1
    /\ ret[1][1].y = ret[1][2].y /\ ret[1][3].y = ret[1][4].y
    /\ dist(ret[1][1].x, ret[1][2].x) = FromInt(H)
    /\ dist(ret[1][3].x, ret[1][4].x) = FromInt(H)

-----------------------------------------------------------------------------
\* C25: a createEmptyMapHere step on an existing category puts the new map,
\* with the single root node, in front of the category's previous maps, which
\* keep their names, ids and nodes, whatever is typed at the prompt
C25_OnlyAdds ==
    [][ last'.op = "createEmptyMapHere" =>
          LET old == catById(categories, currentCatId').maps
              new == catById(categories', currentCatId').maps
          IN  /\ Len(new) = Len(old) + 1
              /\ new[1].nodes = INITIAL_NODES
              /\ \A k \in 1..Len(old) :
                   /\ new[k + 1].name = old[k].name
                   /\ new[k + 1].id = old[k].id
                   /\ new[k + 1].nodes = old[k].nodes ]_vars

\* the map of the tree with the given id
mapById(list, mapId) ==
    CHOOSE m \in UNION { Range(c.maps) : c \in catsOf(list) } : m.id = mapId

\* the other maps of the category catId
siblingsOf(list, catId, mapId) ==
    SelectSeq(catById(list, catId).maps, LAMBDA m : m.id # mapId)

\* name is what the naming policy gives a map with these siblings: no white
\* space at either end, and either no numbered suffix and no sibling of that
\* name, or root (n) where a sibling is named root, siblings are named
\* root (2) .. root (n - 1) and none is named root (n)
settledName(name, sibs) ==
    /\ name # <<>> /\ ~IsSpace(name[1]) /\ ~IsSpace(name[Len(name)])
    /\ ~someNamed(sibs, name)
    /\ refStrip(name) # name =>
          /\ someNamed(sibs, refStrip(name))
          /\ \E n \in 2..(Len(sibs) + 2) :
                /\ name = suffixed(refStrip(name), n)
                /\ \A i \in 2..(n - 1) : someNamed(sibs, suffixed(refStrip(name), i))

\* C26 as stated: committing the present name of the map being renamed leaves
\* the map's name unchanged
C26_AsStated ==
    [][ (mapEditing # <<>> /\ last'.op = "commitMapRename" /\ last'.same) =>
          mapById(categories', mapEditing[1].mapId).name
              = mapById(categories, mapEditing[1].mapId).name ]_vars

\* C26: committing the present name of the map being renamed leaves the map's
\* name unchanged exactly when that name is what the naming policy gives it
\* among the other maps of its category
C26_Untouched ==
    [][ (mapEditing # <<>> /\ last'.op = "commitMapRename" /\ last'.same) =>
          LET old == mapById(categories, mapEditing[1].mapId)
              new == mapById(categories', mapEditing[1].mapId)
          IN  (new.name = old.name)
                <=> settledName(old.name,
                        siblingsOf(categories, mapEditing[1].catId, mapEditing[1].mapId)) ]_vars

\* the present name "X (2)" of a map whose sibling is named "X" was committed,
\* and both maps have their names
C26_Witness ==
    /\ last.op = "commitMapRename" /\ last.same
    /\ mapEditValue = <<"X", SP, LP, "2", RP>>
    /\ \E c \in catsOf(categories) :
          /\ Len(c.maps) = 2
          /\ someNamed(c.maps, <<"X">>)
          /\ someNamed(c.maps, <<"X", SP, LP, "2", RP>>)

-----------------------------------------------------------------------------
(* The sidebar: the category and map handlers of MindMapApp from a first    *)
(* visit and from a stored tree of one category.                            *)

StoredTree == << [id |-> 10, name |-> <<"C">>, maps |-> <<>>, children |-> <<>>] >>

InitSidebar ==
    /\ AppStart
    /\ call = [fn |-> "sidebar"]
    /\ \E stored \in { <<>>, <<JsonText(stringifyCategories(StoredTree))>> } :
         localStorage = [categories |-> stored, nodes |-> <<>>]

NextSidebar ==
    \/ MountEffect
    \/ createCategory
    \/ createSubCategory
    \/ selectCategory
    \/ startCategoryRename
    \/ catEditChange
    \/ commitCategoryRename
    \/ cancelCategoryRename
    \/ saveCurrentAsMap
    \/ createEmptyMapHere
    \/ startMapRename
    \/ mapEditChange
    \/ commitMapRename
    \/ cancelMapRename
    \/ deleteMap

SpecSidebar == InitSidebar /\ [][NextSidebar]_vars

\* C27: after the mount effect and after every handler that follows it the
\* category list is not empty, currentCatId is the id of a category of the
\* tree, and every category that was in the tree before the handler is in it
C27_CategoriesKept ==
    [][ mounted' =>
          /\ categories' # <<>>
          /\ currentCatId' \in catIds(categories')
          /\ mounted => /\ catIds(categories) \subseteq catIds(categories')
                        /\ Cardinality(catsOf(categories')) >= Cardinality(catsOf(categories))
      ]_vars

\* the stored category has got a sub-category, which is the current category,
\* and has been renamed
C27_Witness ==
    /\ mounted /\ last.op = "commitCategoryRename"
    /\ Len(categories) = 1 /\ categories[1].id = 10 /\ categories[1].name = <<"V">>
    /\ Len(categories[1].children) = 1
    /\ currentCatId = categories[1].children[1].id

====
